---------------------------- MODULE Spec2Model ----------------------------
(***************************************************************************)
(* ZombieDetector: the cross-run zombie lifecycle tracker                  *)
(* (zombie_detector/core/zombie_tracker.py, class ZombieTracker).          *)
(*                                                                         *)
(* The tracker owns three JSON files in one data directory:                *)
(*   current_zombies.json  the snapshot of the last run                    *)
(*   zombie_history.json   {"history": [one entry per run]}                *)
(*   killed_zombies.json   {"killed_zombies": [one entry per killed host]} *)
(*                                                                         *)
(* Time.  datetime.now() is the wall clock; the model counts it in half    *)
(* days, so timedelta(days=d) is 2*d and timedelta(hours=h), for h a       *)
(* multiple of 12, is h/12.  Every call that reads the clock reads it      *)
(* once, and the clock has moved on by the time the next call reads it     *)
(* (each call does file I/O, the clock has microsecond resolution).        *)
(* Timestamps are stored as isoformat() strings and parsed back with       *)
(* fromisoformat(); the model keeps the two forms apart: a datetime is a   *)
(* number of half days, its ISO form a <<date, half of the day>> pair.     *)
(***************************************************************************)
EXTENDS Integers, Sequences, FiniteSets, TLC

VARIABLES
    now,                    \* the value the next datetime.now() returns
    current_zombies_file,   \* self.current_zombies_file
    zombie_history_file,    \* self.zombie_history_file
    killed_zombies_file,    \* self.killed_zombies_file
    ret,                    \* the last completed call: name, argument, outcome
    runs,                   \* number of save_current_zombies calls made
    faults                  \* number of times the environment damaged a file

vars == <<now, current_zombies_file, zombie_history_file, killed_zombies_file,
          ret, runs, faults>>

files == <<current_zombies_file, zombie_history_file, killed_zombies_file>>

---------------------------------------------------------------------------
(* Bounds of the model *)

\* save_current_zombies calls in one behaviour of Spec
MaxRuns == 4
\* last clock value at which a call may start
MaxClock == 6
\* save_current_zombies calls in one behaviour of SpecCap
MaxLongRuns == 1003
\* save_current_zombies calls in one behaviour of SpecFault
MaxFaultRuns == 2
\* files the environment damages in one behaviour of SpecFault
MaxFaults == 1

(* Program constant: _update_zombie_history keeps the last 1000 entries *)
HistoryCap == 1000

---------------------------------------------------------------------------
(* Inputs *)

\* Enriched zombie records as process_host_data hands them to the tracker.
\* The second record is host h1 under another classification and without a
\* "hostname" key; the tracker reads that key with .get(..., "unknown").
Host1 == [dynatrace_host_id |-> "h1", hostname |-> "web", criterion_type |-> "1A",
          criterion_alias |-> "Zombie"]
Host1Later == [dynatrace_host_id |-> "h1", criterion_type |-> "2A",
               criterion_alias |-> "Mummy"]
Host2 == [dynatrace_host_id |-> "h2", hostname |-> "db", criterion_type |-> "1A",
          criterion_alias |-> "Zombie"]
Host3 == [dynatrace_host_id |-> "h3", hostname |-> "app", criterion_type |-> "5",
          criterion_alias |-> "Coloso"]

\* "h4" is an id no list contains
HostIds == {"h1", "h2", "h3", "h4"}

\* The lists passed to save_current_zombies: no zombie, one zombie, two
\* zombies, and a list that names the same host twice.
ZombieLists ==
    { <<>>, <<Host1>>, <<Host1Later, Host2>>, <<Host1, Host3>>, <<Host1, Host1Later>> }

DaysToKeep == {0, 1}
SinceHours == {0, 12, 24}

---------------------------------------------------------------------------
(* datetime *)

\* datetime.isoformat(): the date and the time of day
isoformat(t) == <<t \div 2, t % 2>>

\* datetime.fromisoformat()
fromisoformat(s) == s[1] * 2 + s[2]

timedelta_hours(h) == h \div 12
timedelta_days(d) == d * 2

---------------------------------------------------------------------------
(* Files.  status "ok": valid JSON of the tracker's layout; "missing": open *)
(* raises FileNotFoundError; "corrupt": json.load raises JSONDecodeError;   *)
(* "unreadable": reading raises any other exception (UnicodeDecodeError for *)
(* bytes that are not UTF-8, PermissionError, ...), which no except clause  *)
(* of the tracker names.                                                    *)

NoStats == [total_zombies |-> 0, new_zombies |-> 0, persisting_zombies |-> 0,
            killed_zombies |-> 0]

CurrentFile(s, ts, zs, ids, st) ==
    [status |-> s, timestamp |-> ts, zombies |-> zs, zombie_ids |-> ids, stats |-> st]
HistoryFile(s, h) == [status |-> s, history |-> h]
KilledFile(s, k) == [status |-> s, killed_zombies |-> k]

NoCurrent(s) == CurrentFile(s, <<0, 0>>, <<>>, {}, NoStats)

\* dict.get(key, default)
Get(d, key, default) == IF key \in DOMAIN d THEN d[key] ELSE default

\* except (FileNotFoundError, json.JSONDecodeError)
Caught(file) == file.status \in {"missing", "corrupt"}
\* an except clause that names FileNotFoundError only
RaisesOnCorrupt(file) == file.status \in {"unreadable", "corrupt"}
Raises(file) == file.status = "unreadable"

\* {z["dynatrace_host_id"] for z in zombies}
IdSet(zombies) == {zombies[i].dynatrace_host_id : i \in DOMAIN zombies}

---------------------------------------------------------------------------
(* ZombieTracker: private helpers *)

\* _load_current_zombies: the "zombies" list of the stored snapshot
\* the previous snapshot taken from the last entry of the history log
_load_last_history_entry ==
    IF Raises(zombie_history_file) THEN [raised |-> TRUE, value |-> <<>>]
    ELSE IF Caught(zombie_history_file) \/ zombie_history_file.history = <<>>
    THEN [raised |-> FALSE, value |-> <<>>]
    ELSE [raised |-> FALSE,
          value |-> zombie_history_file.history[Len(zombie_history_file.history)].zombies]

_load_current_zombies ==
    IF Raises(current_zombies_file) THEN [raised |-> TRUE, value |-> <<>>]
    ELSE IF Caught(current_zombies_file) THEN [raised |-> FALSE, value |-> <<>>]
    ELSE [raised |-> FALSE, value |-> current_zombies_file.zombies]

\* the cap applied from the wrong end: history_data["history"][:1000]
KeepFirst(h) ==
    IF Len(h) > HistoryCap THEN SubSeq(h, 1, HistoryCap) ELSE h

\* history_data["history"][-1000:] when longer than 1000
KeepLast(h) ==
    IF Len(h) > HistoryCap THEN SubSeq(h, Len(h) - HistoryCap + 1, Len(h)) ELSE h

\* _update_zombie_history: the history file it writes
_update_zombie_history(zombies, timestamp) ==
    IF Raises(zombie_history_file)
    THEN [raised |-> TRUE, file |-> zombie_history_file]
    ELSE LET history_data == IF Caught(zombie_history_file) THEN <<>>
                             ELSE zombie_history_file.history
             history_entry == [timestamp |-> timestamp,
                               zombie_count |-> Len(zombies),
                               zombies |-> zombies]
         IN [raised |-> FALSE,
             file |-> HistoryFile("ok", KeepLast(Append(history_data, history_entry)))]

\* killed_entry with the host name never copied from the previous snapshot
killed_entry_no_hostname(zombie, timestamp) ==
    [dynatrace_host_id |-> zombie.dynatrace_host_id,
     hostname |-> "unknown",
     criterion_type |-> Get(zombie, "criterion_type", "unknown"),
     criterion_alias |-> Get(zombie, "criterion_alias", "unknown"),
     killed_at |-> timestamp,
     last_detection |-> zombie]

\* the killed_entry built for one record of the previous snapshot
killed_entry(zombie, timestamp) ==
    [dynatrace_host_id |-> zombie.dynatrace_host_id,
     hostname |-> Get(zombie, "hostname", "unknown"),
     criterion_type |-> Get(zombie, "criterion_type", "unknown"),
     criterion_alias |-> Get(zombie, "criterion_alias", "unknown"),
     killed_at |-> timestamp,
     last_detection |-> zombie]

\* only the first killed record of the previous snapshot gets an entry
KilledEntriesFirstOnly(killed_ids, previous_zombies, timestamp) ==
    LET IsKilled(z) == z.dynatrace_host_id \in killed_ids
        found == SelectSeq(previous_zombies, IsKilled)
    IN IF found = <<>> THEN <<>> ELSE <<killed_entry(found[1], timestamp)>>

\* for zombie in previous_zombies: if zombie[id] in killed_ids: append
KilledEntries(killed_ids, previous_zombies, timestamp) ==
    LET IsKilled(z) == z.dynatrace_host_id \in killed_ids
        found == SelectSeq(previous_zombies, IsKilled)
    IN [i \in DOMAIN found |-> killed_entry(found[i], timestamp)]

\* _track_killed_zombies keeping one entry per id: the entries the registry
\* holds for a killed id are replaced by the new ones
_track_killed_zombies_one_per_id(killed_ids, previous_zombies, timestamp) ==
    IF Raises(killed_zombies_file)
    THEN [raised |-> TRUE, file |-> killed_zombies_file]
    ELSE LET killed_data == IF Caught(killed_zombies_file) THEN <<>>
                            ELSE killed_zombies_file.killed_zombies
             Other(entry) == entry.dynatrace_host_id \notin killed_ids
         IN [raised |-> FALSE,
             file |-> KilledFile("ok",
                        SelectSeq(killed_data, Other)
                            \o KilledEntries(killed_ids, previous_zombies, timestamp))]

\* _track_killed_zombies: the killed registry it writes
_track_killed_zombies(killed_ids, previous_zombies, timestamp) ==
    IF Raises(killed_zombies_file)
    THEN [raised |-> TRUE, file |-> killed_zombies_file]
    ELSE LET killed_data == IF Caught(killed_zombies_file) THEN <<>>
                            ELSE killed_zombies_file.killed_zombies
         IN [raised |-> FALSE,
             file |-> KilledFile("ok",
                        killed_data \o KilledEntries(killed_ids, previous_zombies, timestamp))]

---------------------------------------------------------------------------
(* ZombieTracker.save_current_zombies *)

\* new_zombies with the ids that have a killed record reported apart
NewZombiesNeverKilled(current_zombie_ids, previous_zombie_ids) ==
    (current_zombie_ids \ previous_zombie_ids)
        \ IdSet(killed_zombies_file.killed_zombies)

\* killed_zombies as the whole previous snapshot
KilledZombiesAllPrevious(current_zombie_ids, previous_zombie_ids) ==
    previous_zombie_ids

NewZombies(current_zombie_ids, previous_zombie_ids) ==
    current_zombie_ids \ previous_zombie_ids
PersistingZombies(current_zombie_ids, previous_zombie_ids) ==
    current_zombie_ids \cap previous_zombie_ids
KilledZombies(current_zombie_ids, previous_zombie_ids) ==
    previous_zombie_ids \ current_zombie_ids

\* The record of a completed call: its name, its argument, the clock value it
\* read, and what it returned (or that it raised).
Returned(op, arg, value) ==
    [op |-> op, arg |-> arg, at |-> now, raised |-> FALSE, value |-> value]
Raised(op, arg) ==
    [op |-> op, arg |-> arg, at |-> now, raised |-> TRUE, value |-> "exception"]

\* "total_zombies": number of distinct ids instead of len(zombies), and
\* "killed_zombies": number of previous ids instead of len(killed_zombies)
StatsOfIdSets(zombies, new_zombies, persisting_zombies, killed_zombies) ==
    [total_zombies |-> Cardinality(IdSet(zombies)),
     new_zombies |-> Cardinality(new_zombies),
     persisting_zombies |-> Cardinality(persisting_zombies),
     killed_zombies |-> Cardinality(killed_zombies \cup persisting_zombies)]

\* zombie_data["stats"]: len() of the argument and of the three id sets
Stats(zombies, new_zombies, persisting_zombies, killed_zombies) ==
    [total_zombies |-> Len(zombies),
     new_zombies |-> Cardinality(new_zombies),
     persisting_zombies |-> Cardinality(persisting_zombies),
     killed_zombies |-> Cardinality(killed_zombies)]

\* what one call of save_current_zombies writes and returns
SaveOutcome(zombies) ==
    LET current_time == isoformat(now)
        loaded == _load_current_zombies
        previous_zombies == loaded.value
        previous_zombie_ids == IdSet(previous_zombies)
        current_zombie_ids == IdSet(zombies)
        new_zombies == NewZombies(current_zombie_ids, previous_zombie_ids)
        persisting_zombies == PersistingZombies(current_zombie_ids, previous_zombie_ids)
        killed_zombies == KilledZombies(current_zombie_ids, previous_zombie_ids)
        stats == Stats(zombies, new_zombies, persisting_zombies, killed_zombies)
        hist == _update_zombie_history(zombies, current_time)
        track == IF killed_zombies # {}
                 THEN _track_killed_zombies(killed_zombies, previous_zombies, current_time)
                 ELSE [raised |-> FALSE, file |-> killed_zombies_file]
    IN [raised |-> loaded.raised \/ hist.raised \/ track.raised,
        current |-> IF loaded.raised THEN current_zombies_file
                    ELSE CurrentFile("ok", current_time, zombies, current_zombie_ids, stats),
        history |-> IF loaded.raised \/ hist.raised THEN zombie_history_file
                    ELSE hist.file,
        killed |-> IF loaded.raised \/ hist.raised \/ track.raised
                   THEN killed_zombies_file
                   ELSE track.file,
        value |-> [new_zombies |-> new_zombies,
                   persisting_zombies |-> persisting_zombies,
                   killed_zombies |-> killed_zombies,
                   stats |-> stats]]

save_current_zombies(zombies) ==
    LET done == SaveOutcome(zombies)
    IN /\ now' = now + 1
       /\ runs' = runs + 1
       /\ UNCHANGED faults
       /\ current_zombies_file' = done.current
       /\ zombie_history_file' = done.history
       /\ killed_zombies_file' = done.killed
       /\ ret' = IF done.raised
                 THEN Raised("save_current_zombies", zombies)
                 ELSE Returned("save_current_zombies", zombies, done.value)

---------------------------------------------------------------------------
(* ZombieTracker.cleanup_old_data *)

\* entry_time > cutoff_time
StrictlyNewer(time, cutoff_time) == time > cutoff_time

\* entry_time >= cutoff_time
NotOlder(time, cutoff_time) == time >= cutoff_time

\* timedelta(days=days_to_keep or 30): 0 taken for "no value given"
CleanupCutoffDefaultOnZero(t, days_to_keep) ==
    t - timedelta_days(IF days_to_keep = 0 THEN 30 ELSE days_to_keep)

\* datetime.now() - timedelta(days=days_to_keep)
CleanupCutoff(t, days_to_keep) == t - timedelta_days(days_to_keep)

FilterHistory(history, cutoff_time) ==
    LET Keep(entry) == NotOlder(fromisoformat(entry.timestamp), cutoff_time)
    IN SelectSeq(history, Keep)

FilterKilled(killed, cutoff_time) ==
    LET Keep(entry) == NotOlder(fromisoformat(entry.killed_at), cutoff_time)
    IN SelectSeq(killed, Keep)

cleanup_old_data(days_to_keep) ==
    LET cutoff_time == CleanupCutoff(now, days_to_keep)
        op == "cleanup_old_data"
    IN /\ now' = now + 1
       /\ UNCHANGED <<current_zombies_file, runs, faults>>
       /\ IF Raises(zombie_history_file)
          THEN /\ ret' = Raised(op, days_to_keep)
               /\ UNCHANGED <<zombie_history_file, killed_zombies_file>>
          ELSE IF Caught(zombie_history_file)
          THEN /\ ret' = Returned(op, days_to_keep, "None")
               /\ UNCHANGED <<zombie_history_file, killed_zombies_file>>
          ELSE /\ zombie_history_file' =
                     HistoryFile("ok", FilterHistory(zombie_history_file.history, cutoff_time))
               /\ IF Raises(killed_zombies_file)
                  THEN /\ ret' = Raised(op, days_to_keep)
                       /\ UNCHANGED killed_zombies_file
                  ELSE IF Caught(killed_zombies_file)
                  THEN /\ ret' = Returned(op, days_to_keep, "None")
                       /\ UNCHANGED killed_zombies_file
                  ELSE /\ ret' = Returned(op, days_to_keep, "None")
                       /\ killed_zombies_file' =
                             KilledFile("ok",
                                 FilterKilled(killed_zombies_file.killed_zombies, cutoff_time))

---------------------------------------------------------------------------
(* ZombieTracker: queries.  They change no file; each is a function of the *)
(* files and of the clock at the time of the call.  None is <<>>, a found  *)
(* record r is <<r>>.                                                      *)

\* datetime.now() - timedelta(hours=since_hours)
WindowCutoff(t, since_hours) == t - timedelta_hours(since_hours)

get_killed_zombies(since_hours) ==
    IF Raises(killed_zombies_file) THEN [raised |-> TRUE, value |-> <<>>]
    ELSE IF Caught(killed_zombies_file) THEN [raised |-> FALSE, value |-> <<>>]
    ELSE [raised |-> FALSE,
          value |-> FilterKilled(killed_zombies_file.killed_zombies,
                                 WindowCutoff(now, since_hours))]

\* the scan keeping the last entry that matches instead of returning the first
LastMatch(killed, zombie_id) ==
    LET Matches(entry) == entry.dynatrace_host_id = zombie_id
        found == SelectSeq(killed, Matches)
    IN IF found = <<>> THEN <<>> ELSE <<found[Len(found)]>>

\* for entry in killed: if entry[id] == zombie_id: return entry
FirstMatch(killed, zombie_id) ==
    LET Matches(entry) == entry.dynatrace_host_id = zombie_id
        found == SelectSeq(killed, Matches)
    IN IF found = <<>> THEN <<>> ELSE <<Head(found)>>

\* is_zombie_killed that takes an id of the current snapshot for alive
is_zombie_killed_unless_active(zombie_id) ==
    IF Raises(killed_zombies_file) THEN [raised |-> TRUE, value |-> <<>>]
    ELSE IF Caught(killed_zombies_file) THEN [raised |-> FALSE, value |-> <<>>]
    ELSE IF zombie_id \in IdSet(current_zombies_file.zombies)
    THEN [raised |-> FALSE, value |-> <<>>]
    ELSE [raised |-> FALSE,
          value |-> FirstMatch(killed_zombies_file.killed_zombies, zombie_id)]

is_zombie_killed(zombie_id) ==
    IF Raises(killed_zombies_file) THEN [raised |-> TRUE, value |-> <<>>]
    ELSE IF Caught(killed_zombies_file) THEN [raised |-> FALSE, value |-> <<>>]
    ELSE [raised |-> FALSE,
          value |-> FirstMatch(killed_zombies_file.killed_zombies, zombie_id)]

\* the zombie_detections of one history entry
EntryDetections(entry, zombie_id) ==
    LET Matches(zombie) == zombie.dynatrace_host_id = zombie_id
        found == SelectSeq(entry.zombies, Matches)
    IN [i \in DOMAIN found |-> [timestamp |-> entry.timestamp,
                                criterion_type |-> found[i].criterion_type,
                                criterion_alias |-> found[i].criterion_alias]]

RECURSIVE ZombieDetections(_, _)
ZombieDetections(history, zombie_id) ==
    IF history = <<>> THEN <<>>
    ELSE EntryDetections(Head(history), zombie_id)
             \o ZombieDetections(Tail(history), zombie_id)

get_zombie_lifecycle(zombie_id) ==
    LET history == IF Caught(zombie_history_file) THEN <<>>
                   ELSE zombie_history_file.history
        zombie_detections == ZombieDetections(history, zombie_id)
        current_zombies == _load_current_zombies
        killed_info == is_zombie_killed(zombie_id)
        seen == zombie_detections # <<>>
    IN IF Raises(zombie_history_file) \/ current_zombies.raised \/ killed_info.raised
       THEN [raised |-> TRUE, value |-> <<>>]
       ELSE [raised |-> FALSE,
             value |->
               [zombie_id |-> zombie_id,
                first_seen |-> IF seen THEN <<zombie_detections[1].timestamp>> ELSE <<>>,
                last_seen |-> IF seen
                              THEN <<zombie_detections[Len(zombie_detections)].timestamp>>
                              ELSE <<>>,
                total_detections |-> Len(zombie_detections),
                is_active |-> zombie_id \in IdSet(current_zombies.value),
                killed_info |-> killed_info.value,
                detection_history |-> zombie_detections]]

---------------------------------------------------------------------------
(* The tracker on a fresh data directory, one caller *)

Init ==
    /\ now = 0
    /\ current_zombies_file = NoCurrent("missing")
    /\ zombie_history_file = HistoryFile("missing", <<>>)
    /\ killed_zombies_file = KilledFile("missing", <<>>)
    /\ ret = [op |-> "__init__", arg |-> <<>>, at |-> 0, raised |-> FALSE, value |-> "None"]
    /\ runs = 0
    /\ faults = 0

SaveCurrentZombies ==
    \E zombies \in ZombieLists :
        /\ runs < MaxRuns
        /\ now < MaxClock
        /\ save_current_zombies(zombies)

CleanupOldData ==
    \E days_to_keep \in DaysToKeep :
        /\ now < MaxClock
        /\ cleanup_old_data(days_to_keep)

\* time passes between two calls
ClockAdvance ==
    /\ now < MaxClock
    /\ now' = now + 1
    /\ UNCHANGED <<files, ret, runs, faults>>

Next == SaveCurrentZombies \/ CleanupOldData \/ ClockAdvance

Spec == Init /\ [][Next]_vars

---------------------------------------------------------------------------
(* A long series of runs, to reach the cap of the history log: run k is    *)
(* made at clock value k and finds a zombie on every other run.            *)

LongRunInput == IF runs % 2 = 0 THEN <<Host1>> ELSE <<>>

RecordMany ==
    /\ runs < MaxLongRuns
    /\ save_current_zombies(LongRunInput)

NextCap == RecordMany

SpecCap == Init /\ [][NextCap]_vars

---------------------------------------------------------------------------
(* The tracker with an environment that damages its files between calls *)

FileNames == {"current", "history", "killed"}

StatusOf(name) ==
    CASE name = "current" -> current_zombies_file.status
      [] name = "history" -> zombie_history_file.status
      [] name = "killed" -> killed_zombies_file.status

\* file `name` is left in state `status`; its former content is gone
Damage(name, status) ==
    /\ faults < MaxFaults
    /\ StatusOf(name) # status
    /\ faults' = faults + 1
    /\ current_zombies_file' =
           IF name = "current" THEN NoCurrent(status) ELSE current_zombies_file
    /\ zombie_history_file' =
           IF name = "history" THEN HistoryFile(status, <<>>) ELSE zombie_history_file
    /\ killed_zombies_file' =
           IF name = "killed" THEN KilledFile(status, <<>>) ELSE killed_zombies_file
    /\ UNCHANGED <<now, ret, runs>>

RemoveFile == \E name \in FileNames : Damage(name, "missing")
CorruptFile == \E name \in FileNames : Damage(name, "corrupt")
MakeUnreadable == \E name \in FileNames : Damage(name, "unreadable")

SaveOnDamaged ==
    \E zombies \in ZombieLists :
        /\ runs < MaxFaultRuns
        /\ now < MaxClock
        /\ save_current_zombies(zombies)

NextFault ==
    \/ SaveOnDamaged
    \/ CleanupOldData
    \/ ClockAdvance
    \/ RemoveFile
    \/ CorruptFile
    \/ MakeUnreadable

SpecFault == Init /\ [][NextFault]_vars

---------------------------------------------------------------------------
(* Properties of save_current_zombies *)

\* a step that is a save_current_zombies call, and one that returned
SaveStep == runs' = runs + 1
SaveReturned == SaveStep /\ ~ret'.raised

\* number of entries of a registry (or records of a snapshot) with this id
CountOf(records, id) ==
    Cardinality({i \in DOMAIN records : records[i].dynatrace_host_id = id})

\* C1: for every save_current_zombies call, with previous_ids the ids of the
\* snapshot stored before the call and current_ids the ids of its argument,
\* the returned new, persisting and killed sets are pairwise disjoint,
\* persisting \cup killed = previous_ids and new \cup persisting = current_ids.
C1_Partition ==
    LET previous_ids == IdSet(current_zombies_file.zombies)
        current_ids == IdSet(ret'.arg)
        r == ret'.value
    IN SaveReturned =>
        /\ r.new_zombies \cap r.persisting_zombies = {}
        /\ r.new_zombies \cap r.killed_zombies = {}
        /\ r.persisting_zombies \cap r.killed_zombies = {}
        /\ r.persisting_zombies \cup r.killed_zombies = previous_ids
        /\ r.new_zombies \cup r.persisting_zombies = current_ids

C1_TransitionPartition == [][C1_Partition]_vars

\* a call, the third or a later one, reported a new, a persisting and a
\* killed id
C1_Witness ==
    /\ ret.op = "save_current_zombies"
    /\ ~ret.raised
    /\ ret.value.new_zombies # {}
    /\ ret.value.persisting_zombies # {}
    /\ ret.value.killed_zombies # {}
    /\ runs >= 3

\* C2: a save_current_zombies call that reports an id killed appends to the
\* killed registry a record for that id with the hostname, criterion_type and
\* criterion_alias of a record the id had in the previous snapshot and with
\* killed_at the timestamp of this run; after a snapshot with zombies and then
\* an empty snapshot, is_zombie_killed is non-null for every id of the first.
C2_Recorded ==
    LET previous == current_zombies_file.zombies
        before == killed_zombies_file.killed_zombies
        after == killed_zombies_file'.killed_zombies
        HostnameOf(z) == IF "hostname" \in DOMAIN z THEN z.hostname ELSE "unknown"
    IN SaveReturned =>
        /\ \A id \in ret'.value.killed_zombies :
              \E i \in (Len(before) + 1)..Len(after) :
                  /\ after[i].dynatrace_host_id = id
                  /\ after[i].killed_at = current_zombies_file'.timestamp
                  /\ fromisoformat(after[i].killed_at) = now
                  /\ \E j \in DOMAIN previous :
                        /\ previous[j].dynatrace_host_id = id
                        /\ after[i].hostname = HostnameOf(previous[j])
                        /\ after[i].criterion_type = previous[j].criterion_type
                        /\ after[i].criterion_alias = previous[j].criterion_alias
        /\ ret'.arg = <<>> =>
              \A id \in IdSet(previous) :
                  /\ ~is_zombie_killed(id)'.raised
                  /\ is_zombie_killed(id)'.value # <<>>

C2_KilledRecorded == [][C2_Recorded]_vars

\* an empty snapshot was recorded after one with two zombies, and both have
\* their record, with the host name they had
C2_Witness ==
    /\ ret.op = "save_current_zombies"
    /\ ret.arg = <<>>
    /\ ret.value.killed_zombies = {"h1", "h3"}
    /\ is_zombie_killed("h1").value # <<>>
    /\ is_zombie_killed("h3").value # <<>>
    /\ is_zombie_killed("h3").value[1].hostname = "app"
    /\ is_zombie_killed("h3").value[1].killed_at = isoformat(ret.at)

\* C3: an id that has been reported killed and is in the list of a later call,
\* without being in the snapshot stored before that call, is reported in
\* new_zombies of that call like any id that is not in that snapshot; the
\* report has no other outcome than new, persisting and killed.
C3_New ==
    LET previous_ids == IdSet(current_zombies_file.zombies)
        was_killed == IdSet(killed_zombies_file.killed_zombies)
    IN SaveReturned =>
        /\ DOMAIN ret'.value =
              {"new_zombies", "persisting_zombies", "killed_zombies", "stats"}
        /\ \A id \in IdSet(ret'.arg) \ previous_ids :
              /\ id \in ret'.value.new_zombies
              /\ id \notin ret'.value.persisting_zombies
              /\ id \notin ret'.value.killed_zombies
        /\ \A id \in (IdSet(ret'.arg) \cap was_killed) \ previous_ids :
              id \in ret'.value.new_zombies

C3_RevivedIsNew == [][C3_New]_vars

\* h1 was killed by an earlier call and is new again in the last call, next
\* to an id never seen before
C3_Witness ==
    /\ ret.op = "save_current_zombies"
    /\ ~ret.raised
    /\ ret.value.new_zombies = {"h1", "h3"}
    /\ CountOf(killed_zombies_file.killed_zombies, "h1") >= 1
    /\ CountOf(killed_zombies_file.killed_zombies, "h3") = 0

\* C4: the killed registry is never deduplicated by id: save_current_zombies
\* leaves every entry already in the registry in place and unchanged, and a
\* kill of an id appends one entry per record the id had in the previous
\* snapshot, also when the id already has entries; an id killed, seen again
\* and killed again has an entry for each of the two kills.
C4_Appended ==
    LET previous == current_zombies_file.zombies
        before == killed_zombies_file.killed_zombies
        after == killed_zombies_file'.killed_zombies
    IN SaveStep =>
        /\ Len(after) >= Len(before)
        /\ SubSeq(after, 1, Len(before)) = before
        /\ ~ret'.raised =>
              \A id \in HostIds :
                  CountOf(after, id) =
                      CountOf(before, id)
                          + (IF id \in ret'.value.killed_zombies
                             THEN CountOf(previous, id) ELSE 0)
        /\ ~ret'.raised =>
              \A id \in ret'.value.killed_zombies :
                  /\ CountOf(previous, id) >= 1
                  /\ CountOf(before, id) >= 1 => CountOf(after, id) >= 2

C4_NeverDeduplicated == [][C4_Appended]_vars

\* h1 was killed twice, each time from a snapshot that held it once, and the
\* registry holds exactly the two entries, of different runs
C4_Witness ==
    LET killed == killed_zombies_file.killed_zombies
    IN /\ ret.op = "save_current_zombies"
       /\ "h1" \in ret.value.killed_zombies
       /\ Len(killed) = 2
       /\ killed[1].dynatrace_host_id = "h1"
       /\ killed[2].dynatrace_host_id = "h1"
       /\ killed[1].killed_at # killed[2].killed_at
       /\ killed[2].killed_at = isoformat(ret.at)

---------------------------------------------------------------------------
(* The history cap *)

\* C5: after any sequence of save_current_zombies calls the history log holds
\* at most 1000 entries; once more than 1000 runs were recorded it holds
\* exactly the 1000 most recent ones, oldest first.  (In SpecCap run number k,
\* counted from 0, is stamped with clock value k.)
C5_HistoryCapped ==
    LET h == zombie_history_file.history
    IN /\ now = runs
       /\ Len(h) <= HistoryCap
       /\ Len(h) = (IF runs <= HistoryCap THEN runs ELSE HistoryCap)
       /\ \A i \in DOMAIN h :
              /\ fromisoformat(h[i].timestamp) = runs - Len(h) + i - 1
              /\ h[i].zombie_count = (IF (runs - Len(h) + i - 1) % 2 = 0 THEN 1 ELSE 0)

\* more than 1000 runs were recorded: the first ones are gone
C5_Witness ==
    /\ runs > HistoryCap + 1
    /\ Len(zombie_history_file.history) = HistoryCap
    /\ fromisoformat(zombie_history_file.history[1].timestamp) = runs - HistoryCap
    /\ ret.op = "save_current_zombies"

---------------------------------------------------------------------------
(* Properties of cleanup_old_data *)

\* a step that is a cleanup_old_data call that returned
CleanupReturned ==
    /\ ret'.op = "cleanup_old_data"
    /\ ret'.at = now
    /\ now' = now + 1
    /\ ~ret'.raised

\* C6: after cleanup_old_data(d) executed at time T the history log and the
\* killed registry hold exactly those of their previous entries whose
\* timestamp (timestamp, killed_at) is at or after T - d days, in their order.
C6_Retained ==
    LET T == now
        d == ret'.arg
        AtMostDaysOld(t) == T - t <= timedelta_days(d)
        KeepHistory(entry) == AtMostDaysOld(fromisoformat(entry.timestamp))
        KeepKilled(entry) == AtMostDaysOld(fromisoformat(entry.killed_at))
    IN CleanupReturned =>
        /\ zombie_history_file'.history =
              SelectSeq(zombie_history_file.history, KeepHistory)
        /\ killed_zombies_file'.killed_zombies =
              SelectSeq(killed_zombies_file.killed_zombies, KeepKilled)
        /\ zombie_history_file'.status = zombie_history_file.status
        /\ killed_zombies_file'.status = killed_zombies_file.status

C6_RetentionExact == [][C6_Retained]_vars

\* cleanup_old_data(1) kept a history entry and a killed record that were
\* exactly one day old and dropped an older history entry
C6_Witness ==
    LET h == zombie_history_file.history
        k == killed_zombies_file.killed_zombies
    IN /\ ret.op = "cleanup_old_data"
       /\ ret.arg = 1
       /\ now = ret.at + 1
       /\ h # <<>>
       /\ k # <<>>
       /\ ret.at - fromisoformat(h[1].timestamp) = timedelta_days(1)
       /\ ret.at - fromisoformat(k[1].killed_at) = timedelta_days(1)
       /\ Len(h) < runs

\* C7: cleanup_old_data(0) executed at time T leaves no history entry and no
\* killed record stamped before T, and get_killed_zombies(24) then returns an
\* empty list (as after recording a zombie, then an empty snapshot, then the
\* cleanup).
C7_CleanupZero ==
    (ret.op = "cleanup_old_data" /\ ret.arg = 0) =>
        /\ ~ret.raised
        /\ \A i \in DOMAIN zombie_history_file.history :
              fromisoformat(zombie_history_file.history[i].timestamp) >= ret.at
        /\ \A i \in DOMAIN killed_zombies_file.killed_zombies :
              fromisoformat(killed_zombies_file.killed_zombies[i].killed_at) >= ret.at
        /\ get_killed_zombies(24) = [raised |-> FALSE, value |-> <<>>]

\* cleanup_old_data(0) ran right after the run that recorded an empty
\* snapshot and killed a zombie
C7_Witness ==
    /\ ret.op = "cleanup_old_data"
    /\ ret.arg = 0
    /\ runs >= 2
    /\ current_zombies_file.zombies = <<>>
    /\ current_zombies_file.stats.killed_zombies >= 1
    /\ fromisoformat(current_zombies_file.timestamp) = ret.at - 1
    /\ killed_zombies_file.status = "ok"
    /\ get_killed_zombies(24).value = <<>>

---------------------------------------------------------------------------
(* Properties of the queries *)

Earliest(times) == CHOOSE t \in times : \A u \in times : t <= u
Latest(times) == CHOOSE t \in times : \A u \in times : t >= u

DefaultLifecycle(zombie_id) ==
    [zombie_id |-> zombie_id, first_seen |-> <<>>, last_seen |-> <<>>,
     total_detections |-> 0, is_active |-> FALSE, killed_info |-> <<>>,
     detection_history |-> <<>>]

\* what get_zombie_lifecycle(id) returns, given the number of detections it
\* is to report
LifecycleIs(id, detections) ==
    LET r == get_zombie_lifecycle(id)
        L == r.value
        h == zombie_history_file.history
        containing == {i \in DOMAIN h : id \in IdSet(h[i].zombies)}
        times == {fromisoformat(h[i].timestamp) : i \in containing}
        in_no_store == /\ containing = {}
                       /\ id \notin IdSet(current_zombies_file.zombies)
                       /\ id \notin IdSet(killed_zombies_file.killed_zombies)
    IN /\ ~r.raised
       /\ L.total_detections = detections
       /\ IF containing = {}
          THEN L.first_seen = <<>> /\ L.last_seen = <<>>
          ELSE /\ L.first_seen = <<isoformat(Earliest(times))>>
               /\ L.last_seen = <<isoformat(Latest(times))>>
               /\ fromisoformat(L.first_seen[1]) <= fromisoformat(L.last_seen[1])
       /\ L.is_active = (id \in IdSet(current_zombies_file.zombies))
       /\ L.killed_info = is_zombie_killed(id).value
       /\ in_no_store => L = DefaultLifecycle(id)

\* C8: get_zombie_lifecycle(id) returns total_detections equal to the number
\* of retained history entries whose snapshot contains id, first_seen and
\* last_seen the earliest and latest timestamp among them, is_active true iff
\* id is in the last recorded snapshot, killed_info equal to
\* is_zombie_killed(id), and the default lifecycle for an id in no store.
C8_Lifecycle ==
    \A id \in HostIds :
        LET h == zombie_history_file.history
        IN LifecycleIs(id, Cardinality({i \in DOMAIN h : id \in IdSet(h[i].zombies)}))

\* What the code computes instead: total_detections is the number of zombie
\* records with this id in the retained history entries (a snapshot that
\* lists the id twice counts twice); the rest of C8 is as stated.
C8_LifecycleByRecords ==
    \A id \in HostIds :
        LET h == zombie_history_file.history
            records == UNION { {<<i, j>> : j \in {m \in DOMAIN h[i].zombies :
                                   h[i].zombies[m].dynatrace_host_id = id}} :
                               i \in DOMAIN h }
        IN LifecycleIs(id, Cardinality(records))

\* the registry entries for this id, by position
EntriesFor(id) ==
    {i \in DOMAIN killed_zombies_file.killed_zombies :
        killed_zombies_file.killed_zombies[i].dynatrace_host_id = id}

\* C9 as claimed: is_zombie_killed(id) is None iff the registry has no entry
\* for id, and for an id killed more than once it is the entry of the most
\* recent kill.
C9_MostRecent ==
    \A id \in HostIds :
        LET k == killed_zombies_file.killed_zombies
            r == is_zombie_killed(id)
        IN /\ ~r.raised
           /\ (r.value = <<>>) <=> (EntriesFor(id) = {})
           /\ EntriesFor(id) # {} =>
                 \A i \in EntriesFor(id) :
                     fromisoformat(r.value[1].killed_at) >= fromisoformat(k[i].killed_at)

\* C9 amended: is_zombie_killed(id) is None iff the registry has no entry for
\* id; otherwise it is the first entry for id in registry order, which is an
\* entry of the earliest kill the registry still holds.
C9_FirstRecorded ==
    \A id \in HostIds :
        LET k == killed_zombies_file.killed_zombies
            r == is_zombie_killed(id)
        IN /\ ~r.raised
           /\ (r.value = <<>>) <=> (EntriesFor(id) = {})
           /\ EntriesFor(id) # {} =>
                 /\ r.value = <<k[Earliest(EntriesFor(id))]>>
                 /\ \A i \in EntriesFor(id) :
                       fromisoformat(r.value[1].killed_at) <= fromisoformat(k[i].killed_at)

\* h1 was killed in two runs; is_zombie_killed returns the entry of the first
C9_Witness ==
    LET k == killed_zombies_file.killed_zombies
    IN /\ Cardinality(EntriesFor("h1")) = 2
       /\ k[1].dynatrace_host_id = "h1"
       /\ fromisoformat(k[1].killed_at) < fromisoformat(k[Len(k)].killed_at)
       /\ k[Len(k)].dynatrace_host_id = "h1"
       /\ is_zombie_killed("h1").value = <<k[1]>>
       /\ is_zombie_killed("h4").value = <<>>

\* C10: get_killed_zombies(h) executed at time T returns exactly the registry
\* entries with killed_at >= T - h hours, in registry order, and an empty
\* list, never an error, when the registry is missing, unreadable or has no
\* entry in the window.
C10_KilledSince ==
    \A h \in SinceHours :
        LET r == get_killed_zombies(h)
            InWindow(entry) == now - fromisoformat(entry.killed_at) <= timedelta_hours(h)
        IN /\ ~r.raised
           /\ r.value = SelectSeq(killed_zombies_file.killed_zombies, InWindow)

---------------------------------------------------------------------------
(* Missing and corrupt stores *)

Degraded == {"missing", "corrupt"}

\* a save_current_zombies step on degraded stores
C11_Save ==
    SaveStep =>
      LET zombies == ret'.arg
          entry == [timestamp |-> isoformat(now), zombie_count |-> Len(zombies),
                    zombies |-> zombies]
      IN /\ (current_zombies_file.status \in Degraded
               /\ zombie_history_file.status # "unreadable")
            => /\ ~ret'.raised
               /\ ret'.value.new_zombies = IdSet(zombies)
               /\ ret'.value.persisting_zombies = {}
               /\ ret'.value.killed_zombies = {}
               /\ killed_zombies_file' = killed_zombies_file
         /\ (zombie_history_file.status \in Degraded
               /\ current_zombies_file.status # "unreadable")
            => zombie_history_file' = HistoryFile("ok", <<entry>>)
         /\ (killed_zombies_file.status \in Degraded /\ ~ret'.raised
               /\ ret'.value.killed_zombies # {})
            => /\ killed_zombies_file'.status = "ok"
               /\ Len(killed_zombies_file'.killed_zombies) =
                     Cardinality({i \in DOMAIN current_zombies_file.zombies :
                         current_zombies_file.zombies[i].dynatrace_host_id
                             \in ret'.value.killed_zombies})
               /\ \A i \in DOMAIN killed_zombies_file'.killed_zombies :
                     killed_zombies_file'.killed_zombies[i].killed_at = isoformat(now)

\* the queries on degraded stores
C11_Queries ==
    /\ killed_zombies_file.status \in Degraded
       => /\ \A id \in HostIds :
                is_zombie_killed(id) = [raised |-> FALSE, value |-> <<>>]
          /\ \A h \in SinceHours :
                get_killed_zombies(h) = [raised |-> FALSE, value |-> <<>>]
    /\ \A id \in HostIds :
          LET r == get_zombie_lifecycle(id)
              others(name) == \A n \in FileNames \ {name} : StatusOf(n) # "unreadable"
          IN /\ (zombie_history_file.status \in Degraded /\ others("history"))
                => /\ ~r.raised
                   /\ r.value.total_detections = 0
                   /\ r.value.detection_history = <<>>
                   /\ r.value.first_seen = <<>>
                   /\ r.value.last_seen = <<>>
             /\ (killed_zombies_file.status \in Degraded /\ others("killed"))
                => ~r.raised /\ r.value.killed_info = <<>>
             /\ (current_zombies_file.status \in Degraded /\ others("current"))
                => ~r.raised /\ ~r.value.is_active

\* C11: with the current snapshot missing or corrupt, save_current_zombies
\* does not raise, reports every id of its argument as new, none as
\* persisting or killed, and appends no killed record; a missing or corrupt
\* history log or killed registry is read as an empty one by
\* save_current_zombies, is_zombie_killed, get_killed_zombies and
\* get_zombie_lifecycle.
C11_DegradedAsFirstRun == []C11_Queries /\ [][C11_Save]_vars

\* the second run finds h1 again after the snapshot of the first run was
\* lost or corrupted: h1 is reported as new, not as persisting
C11_Witness ==
    /\ runs = 2
    /\ faults = 1
    /\ ret.op = "save_current_zombies"
    /\ ~ret.raised
    /\ "h1" \in ret.value.new_zombies
    /\ zombie_history_file.status = "ok"
    /\ Len(zombie_history_file.history) = 2
    /\ "h1" \in IdSet(zombie_history_file.history[1].zombies)
    /\ killed_zombies_file.status = "missing"

---------------------------------------------------------------------------
(* classifier.py: the tables.  A Python list is a sequence and its index i *)
(* (0..4) is position i + 1; a dict is a function; a frozenset is a set.   *)

CRITERIA_KEYS ==
    << "Recent_CPU_decrease_criterion",
       "Recent_net_traffic_decrease_criterion",
       "Sustained_Low_CPU_criterion",
       "Excessively_constant_RAM_criterion",
       "Daily_CPU_profile_lost_criterion" >>

CRITERIA_DESCRIPTIONS ==
    << "Detectada una bajada repentina en el uso de CPU",
       "Detectada una caída brusca en el tráfico de red reciente",
       "El uso de CPU se mantiene demasiado bajo durante un tiempo prolongado",
       "El uso de RAM permanece anormalmente constante, sin variaciones",
       "El patrón diario esperado de uso de CPU no se está cumpliendo" >>

ALIAS_BY_CODE ==
    ("5" :> "Coloso")
    @@ ("4A" :> "Nemesis") @@ ("4B" :> "Clicker") @@ ("4C" :> "Revenant")
    @@ ("4D" :> "Ghoul") @@ ("4E" :> "Gael")
    @@ ("3A" :> "Solomon") @@ ("3B" :> "Bud") @@ ("3C" :> "Tarman")
    @@ ("3D" :> "Ben") @@ ("3E" :> "Fido") @@ ("3F" :> "Bloater")
    @@ ("3G" :> "Shambler") @@ ("3H" :> "Stalker") @@ ("3I" :> "Zeus")
    @@ ("3J" :> "Wights")
    @@ ("2A" :> "Mummy") @@ ("2B" :> "Wraith") @@ ("2C" :> "Vampire")
    @@ ("2D" :> "Banshee") @@ ("2E" :> "Phantom") @@ ("2F" :> "Specter")
    @@ ("2G" :> "Shade") @@ ("2H" :> "Poltergeist") @@ ("2I" :> "Spirit")
    @@ ("2J" :> "Apparition")
    @@ ("1A" :> "Zombie") @@ ("1B" :> "Walker") @@ ("1C" :> "Crawler")
    @@ ("1D" :> "Lurker") @@ ("1E" :> "Sleeper")
    @@ ("0" :> "No Zombie Detected")

FOUR_OF_FIVE_MISSING_TO_CODE ==
    (0 :> "4A") @@ (1 :> "4B") @@ (2 :> "4C") @@ (3 :> "4D") @@ (4 :> "4E")

THREE_COMBOS ==
    << << <<0, 1, 2>>, "3A" >>, << <<0, 1, 3>>, "3B" >>, << <<0, 1, 4>>, "3C" >>,
       << <<0, 2, 3>>, "3D" >>, << <<0, 2, 4>>, "3E" >>, << <<0, 3, 4>>, "3F" >>,
       << <<1, 2, 3>>, "3G" >>, << <<1, 2, 4>>, "3H" >>, << <<1, 3, 4>>, "3I" >>,
       << <<2, 3, 4>>, "3J" >> >>

TWO_COMBOS ==
    << << <<0, 1>>, "2A" >>, << <<0, 2>>, "2B" >>, << <<0, 3>>, "2C" >>,
       << <<0, 4>>, "2D" >>, << <<1, 2>>, "2E" >>, << <<1, 3>>, "2F" >>,
       << <<1, 4>>, "2G" >>, << <<2, 3>>, "2H" >>, << <<2, 4>>, "2I" >>,
       << <<3, 4>>, "2J" >> >>

ONE_INDEX_TO_CODE ==
    (0 :> "1A") @@ (1 :> "1B") @@ (2 :> "1C") @@ (3 :> "1D") @@ (4 :> "1E")

\* frozenset(t)
frozenset(t) == {t[i] : i \in DOMAIN t}

\* {frozenset(t): code for t, code in combos}: a later pair replaces an
\* earlier one with the same key
SetToCode(combos) ==
    [S \in {frozenset(combos[i][1]) : i \in DOMAIN combos} |->
        LET at == {i \in DOMAIN combos : frozenset(combos[i][1]) = S}
            last == CHOOSE i \in at : \A j \in at : j <= i
        IN combos[last][2]]

THREE_SET_TO_CODE == SetToCode(THREE_COMBOS)
TWO_SET_TO_CODE == SetToCode(TWO_COMBOS)

\* the same list in descending order
RECURSIVE sorted_reverse(_)
sorted_reverse(S) ==
    IF S = {} THEN <<>>
    ELSE LET greatest == CHOOSE x \in S : \A y \in S : x >= y
         IN <<greatest>> \o sorted_reverse(S \ {greatest})

\* sorted(S) for a set of integers
RECURSIVE sorted(_)
sorted(S) ==
    IF S = {} THEN <<>>
    ELSE LET least == CHOOSE x \in S : \A y \in S : x <= y
         IN <<least>> \o sorted(S \ {least})

\* d.update(e) and d[key] = value: the later binding wins
update(d, e) == e @@ d

---------------------------------------------------------------------------
(* classifier.py: the functions.  A criterion field holds a JSON literal,  *)
(* written as its text; a function that can raise returns                  *)
(* [raised, value].  A description, the fragments joined with ", ", is     *)
(* kept as the sequence of its fragments.                                  *)

\* The value of a criterion field is kept as its JSON text: 1, -1, 1.5, 1e0,
\* true, null, "1" (in double quotes), [].  json_loads gives the Python value
\* json.load yields for the text, int what int() does with that value.  Both
\* are defined on the texts named at each step and on no other: a CASE
\* without OTHER, and a function outside its domain, have no value.

DIGIT ==
    ("0" :> 0) @@ ("1" :> 1) @@ ("2" :> 2) @@ ("3" :> 3) @@ ("4" :> 4)
    @@ ("5" :> 5) @@ ("6" :> 6) @@ ("7" :> 7) @@ ("8" :> 8) @@ ("9" :> 9)

\* s[i - 1] of a str
CharAt(s, i) == SubSeq(s, i, i)

\* the index after the digits of s that start at index i
RECURSIVE DigitRun(_, _)
DigitRun(s, i) ==
    IF i <= Len(s) /\ CharAt(s, i) \in DOMAIN DIGIT THEN DigitRun(s, i + 1) ELSE i

\* the number a sequence of decimal digits writes, 0 for no digit
RECURSIVE DigitsValue(_)
DigitsValue(s) ==
    IF Len(s) = 0 THEN 0
    ELSE DigitsValue(SubSeq(s, 1, Len(s) - 1)) * 10 + DIGIT[CharAt(s, Len(s))]

\* the number of zeros a sequence of digits begins with, and ends with
RECURSIVE LeadingZeros(_)
LeadingZeros(s) ==
    IF Len(s) > 0 /\ CharAt(s, 1) = "0" THEN 1 + LeadingZeros(SubSeq(s, 2, Len(s)))
    ELSE 0

RECURSIVE TrailingZeros(_)
TrailingZeros(s) ==
    IF Len(s) > 0 /\ CharAt(s, Len(s)) = "0"
    THEN 1 + TrailingZeros(SubSeq(s, 1, Len(s) - 1))
    ELSE 0

\* a model integer holds nine decimal digits
MaxDigits == 9

\* The characters of a JSON text, each run in the order of its codes: printable
\* ASCII, 32 to 95 and 97 to 126, and Latin-1, 161 to 172 and 174 to 255 (a
\* string of this module cannot hold the grave accent, 96, nor a character
\* after 255; any character can be written as an escape)
ASCII_32_95 ==
    " !\"#$%&'()*+,-./0123456789:;<=>?@ABCDEFGHIJKLMNOPQRSTUVWXYZ[\\]^_"

ASCII_97_126 == "abcdefghijklmnopqrstuvwxyz{|}~"

LATIN_161_172 == "¡¢£¤¥¦§¨©ª«¬"

LATIN_174_255 ==
    "®¯°±²³´µ¶·¸¹º»¼½¾¿ÀÁÂÃÄÅÆÇÈÉÊËÌÍÎÏÐÑÒÓÔÕÖ×ØÙÚÛÜÝÞßàáâãäåæçèéêëìíîïðñòóôõö÷øùúûüýþÿ"

\* the codes of the characters of a run that starts at code `first`
Codes(run, first) ==
    [c \in {CharAt(run, i) : i \in 1..Len(run)} |->
        first - 1 + CHOOSE i \in 1..Len(run) : CharAt(run, i) = c]

\* ord(c)
ord ==
    Codes(ASCII_32_95, 32) @@ Codes(ASCII_97_126, 97)
        @@ Codes(LATIN_161_172, 161) @@ Codes(LATIN_174_255, 174)

HEX ==
    DIGIT @@ ("a" :> 10) @@ ("b" :> 11) @@ ("c" :> 12) @@ ("d" :> 13) @@ ("e" :> 14)
    @@ ("f" :> 15) @@ ("A" :> 10) @@ ("B" :> 11) @@ ("C" :> 12) @@ ("D" :> 13)
    @@ ("E" :> 14) @@ ("F" :> 15)

\* the number the four hexadecimal digits of the escape \uXXXX at index i write
CodePoint(text, i) ==
    ((HEX[CharAt(text, i + 2)] * 16 + HEX[CharAt(text, i + 3)]) * 16
        + HEX[CharAt(text, i + 4)]) * 16 + HEX[CharAt(text, i + 5)]

\* the code the escape \uXXXX at index i of text writes, -1 when the text has
\* no such escape there
UnicodeEscape(text, i) ==
    IF /\ i + 5 <= Len(text)
       /\ CharAt(text, i) = "\\"
       /\ CharAt(text, i + 1) = "u"
       /\ \A k \in 2..5 : CharAt(text, i + k) \in DOMAIN HEX
    THEN CodePoint(text, i)
    ELSE -1

\* the character after a backslash and the code of the character it writes
ESCAPE ==
    ("\"" :> 34) @@ ("\\" :> 92) @@ ("/" :> 47) @@ ("b" :> 8) @@ ("f" :> 12)
    @@ ("n" :> 10) @@ ("r" :> 13) @@ ("t" :> 9)

\* the index after the JSON string read from index i of text, its opening
\* quote before i; -1 when the decoder rejects it: no closing quote, a control
\* character, an unknown escape
RECURSIVE StringEnd(_, _)
StringEnd(text, i) ==
    IF i > Len(text) THEN -1
    ELSE IF CharAt(text, i) = "\"" THEN i + 1
    ELSE IF CharAt(text, i) \in {"\t", "\n", "\f", "\r"} THEN -1
    ELSE IF CharAt(text, i) # "\\"
    THEN (IF ord[CharAt(text, i)] >= 32 THEN StringEnd(text, i + 1) ELSE -1)
    ELSE IF i < Len(text) /\ CharAt(text, i + 1) \in DOMAIN ESCAPE
    THEN StringEnd(text, i + 2)
    ELSE IF UnicodeEscape(text, i) = -1 THEN -1
    ELSE StringEnd(text, i + 6)

\* the codes of the characters of the str that string writes.  Two escapes
\* that write a surrogate pair are one character
RECURSIVE StringChars(_, _)
StringChars(text, i) ==
    IF CharAt(text, i) = "\"" THEN <<>>
    ELSE IF CharAt(text, i) # "\\"
    THEN <<ord[CharAt(text, i)]>> \o StringChars(text, i + 1)
    ELSE IF CharAt(text, i + 1) \in DOMAIN ESCAPE
    THEN <<ESCAPE[CharAt(text, i + 1)]>> \o StringChars(text, i + 2)
    ELSE IF /\ UnicodeEscape(text, i) \in 55296..56319
            /\ UnicodeEscape(text, i + 6) \in 56320..57343
    THEN <<65536 + (UnicodeEscape(text, i) - 55296) * 1024
                 + (UnicodeEscape(text, i + 6) - 56320)>>
         \o StringChars(text, i + 12)
    ELSE <<UnicodeEscape(text, i)>> \o StringChars(text, i + 6)

\* float(): the double nearest to 0.digits * 10^point, digits without a zero
\* at either end.  A double is written as the shortest digits that give it.
\* Defined where these are known without rounding: a zero; a number of at most
\* 15 digits from 1e-307 up to 1e308, of which no two give the same double; a
\* number from 1e309 on, an infinity; a number under 1e-324, a zero
FloatOf(negative, digits, point) ==
    CASE digits = "" \/ point <= -324 ->
            [type |-> "float", special |-> "", negative |-> negative,
             digits |-> "", point |-> 0]
      [] digits # "" /\ point >= 310 ->
            [type |-> "float", special |-> "inf", negative |-> negative,
             digits |-> "", point |-> 0]
      [] digits # "" /\ point \in -306..308 /\ Len(digits) <= 15 ->
            [type |-> "float", special |-> "", negative |-> negative,
             digits |-> digits, point |-> point]

\* the digits as written, the point after the first `point` of them
float(negative, digits, point) ==
    FloatOf(negative,
            SubSeq(digits, LeadingZeros(digits) + 1,
                   IF LeadingZeros(digits) = Len(digits) THEN Len(digits)
                   ELSE Len(digits) - TrailingZeros(digits)),
            point - LeadingZeros(digits))

\* A number is -? (0 | [1-9] digits) (. digits)? ([eE] [+-]? digits)?, read
\* from left to right as far as it goes.
\* the index after the integer part whose first digit is at index a, a itself
\* when there is no digit
IntegerEnd(text, a) ==
    IF a <= Len(text) /\ CharAt(text, a) = "0" THEN a + 1 ELSE DigitRun(text, a)

\* the index after the fraction, b when no point and digit follow
FractionEnd(text, b) ==
    IF b <= Len(text) /\ CharAt(text, b) = "." /\ DigitRun(text, b + 1) > b + 1
    THEN DigitRun(text, b + 1)
    ELSE b

\* the index of the first digit of the exponent, c when there is none
ExponentDigits(text, c) ==
    IF c <= Len(text) /\ CharAt(text, c) \in {"e", "E"}
    THEN IF c + 1 <= Len(text) /\ CharAt(text, c + 1) \in {"+", "-"}
         THEN (IF DigitRun(text, c + 2) > c + 2 THEN c + 2 ELSE c)
         ELSE (IF DigitRun(text, c + 1) > c + 1 THEN c + 1 ELSE c)
    ELSE c

\* the index after the exponent
ExponentEnd(text, c) ==
    IF ExponentDigits(text, c) > c THEN DigitRun(text, ExponentDigits(text, c)) ELSE c

\* the index of the first digit of the number at index i
FirstDigit(text, i) == IF i <= Len(text) /\ CharAt(text, i) = "-" THEN i + 1 ELSE i

\* the index after the number that starts at index i, -1 when none does
NumberEnd(text, i) ==
    IF IntegerEnd(text, FirstDigit(text, i)) = FirstDigit(text, i) THEN -1
    ELSE ExponentEnd(text, FractionEnd(text, IntegerEnd(text, FirstDigit(text, i))))

\* the white space the decoder skips
RECURSIVE SkipSpace(_, _)
SkipSpace(text, i) ==
    IF i # -1 /\ i <= Len(text) /\ CharAt(text, i) \in {" ", "\t", "\n", "\r"}
    THEN SkipSpace(text, i + 1)
    ELSE i

\* text reads w from index i
Reads(text, i, w) == i + Len(w) - 1 <= Len(text) /\ SubSeq(text, i, i + Len(w) - 1) = w

\* the values written as a word
WORDS == {"null", "true", "false", "NaN", "Infinity", "-Infinity"}

\* the index after the JSON value that starts at index i of text, -1 when the
\* decoder finds none there.  ItemsEnd reads the items of an array from the
\* item at index i, MembersEnd the members of an object from the key at
\* index i; the closing bracket, the comma or the colon is looked for at
\* index `end`, after white space
RECURSIVE ValueEnd(_, _)
RECURSIVE ItemsEnd(_, _)
RECURSIVE MembersEnd(_, _)

ItemsNext(text, end) ==
    IF end = -1 \/ end > Len(text) THEN -1
    ELSE IF CharAt(text, end) = "]" THEN end + 1
    ELSE IF CharAt(text, end) = "," THEN ItemsEnd(text, SkipSpace(text, end + 1))
    ELSE -1

ItemsEnd(text, i) == ItemsNext(text, SkipSpace(text, ValueEnd(text, i)))

MembersNext(text, end) ==
    IF end = -1 \/ end > Len(text) THEN -1
    ELSE IF CharAt(text, end) = "}" THEN end + 1
    ELSE IF CharAt(text, end) = "," THEN MembersEnd(text, SkipSpace(text, end + 1))
    ELSE -1

MemberValue(text, end) ==
    IF end = -1 \/ end > Len(text) \/ CharAt(text, end) # ":" THEN -1
    ELSE MembersNext(text, SkipSpace(text, ValueEnd(text, SkipSpace(text, end + 1))))

MembersEnd(text, i) ==
    IF i > Len(text) \/ CharAt(text, i) # "\"" THEN -1
    ELSE MemberValue(text, SkipSpace(text, StringEnd(text, i + 1)))

ValueEnd(text, i) ==
    IF i = -1 \/ i > Len(text) THEN -1
    ELSE IF CharAt(text, i) = "\"" THEN StringEnd(text, i + 1)
    ELSE IF CharAt(text, i) = "["
    THEN IF Reads(text, SkipSpace(text, i + 1), "]") THEN SkipSpace(text, i + 1) + 1
         ELSE ItemsEnd(text, SkipSpace(text, i + 1))
    ELSE IF CharAt(text, i) = "{"
    THEN IF Reads(text, SkipSpace(text, i + 1), "}") THEN SkipSpace(text, i + 1) + 1
         ELSE MembersEnd(text, SkipSpace(text, i + 1))
    ELSE IF \E w \in WORDS : Reads(text, i, w)
    THEN i + Len(CHOOSE w \in WORDS : Reads(text, i, w))
    ELSE NumberEnd(text, i)

\* a number that is the whole of text: `a` is the index of its first digit,
\* `b` the index after the integer part, `c` after the fraction, `d` the index
\* of the first digit of the exponent.  A number with a fraction or an exponent
\* is a float.  Defined for an integer and for an exponent of at most
\* MaxDigits digits
JsonNumberRead(text, a, b, c, d) ==
    CASE c = Len(text) + 1 /\ c = b /\ b - a <= MaxDigits ->
            [type |-> "int",
             value |-> IF a = 2 THEN -DigitsValue(SubSeq(text, a, b - 1))
                       ELSE DigitsValue(SubSeq(text, a, b - 1))]
      [] c = Len(text) + 1 /\ c > b ->
            float(a = 2, SubSeq(text, a, b - 1) \o SubSeq(text, b + 1, c - 1), b - a)
      [] c <= Len(text) /\ Len(text) + 1 - d <= MaxDigits ->
            float(a = 2, SubSeq(text, a, b - 1) \o SubSeq(text, b + 1, c - 1),
                  b - a + (IF CharAt(text, d - 1) = "-"
                           THEN -DigitsValue(SubSeq(text, d, Len(text)))
                           ELSE DigitsValue(SubSeq(text, d, Len(text)))))

JsonFraction(text, a, b) ==
    JsonNumberRead(text, a, b, FractionEnd(text, b),
                   ExponentDigits(text, FractionEnd(text, b)))

JsonNumber(text) ==
    JsonFraction(text, FirstDigit(text, 1), IntegerEnd(text, FirstDigit(text, 1)))

\* the value a text writes when it is no array and no object, the text
\* without white space around it
JsonValue(text) ==
    IF text = "true" THEN [type |-> "bool", value |-> TRUE]
    ELSE IF text = "false" THEN [type |-> "bool", value |-> FALSE]
    ELSE IF text = "null" THEN [type |-> "NoneType"]
    ELSE IF text = "NaN"
    THEN [type |-> "float", special |-> "nan", negative |-> FALSE,
          digits |-> "", point |-> 0]
    ELSE IF text \in {"Infinity", "-Infinity"}
    THEN [type |-> "float", special |-> "inf", negative |-> text = "-Infinity",
          digits |-> "", point |-> 0]
    ELSE IF CharAt(text, 1) = "\"" THEN [type |-> "str", value |-> StringChars(text, 2)]
    ELSE JsonNumber(text)

\* the value the decoder reads from index i of a text it accepts: a list is
\* the sequence of its items, a dict the sequence of its members in the order
\* of the text, each the characters of its key and its value.  ItemsAt reads
\* the items of an array from the item at index i, MembersAt the members of an
\* object from the key at index i
RECURSIVE ValueAt(_, _)
RECURSIVE ItemsAt(_, _)
RECURSIVE MembersAt(_, _)

\* the items after the one that ends before index `end`
ItemsAfter(text, end) ==
    IF CharAt(text, end) = "]" THEN <<>> ELSE ItemsAt(text, SkipSpace(text, end + 1))

ItemsAt(text, i) ==
    <<ValueAt(text, i)>> \o ItemsAfter(text, SkipSpace(text, ValueEnd(text, i)))

\* the members after the one that ends before index `end`
MembersAfter(text, end) ==
    IF CharAt(text, end) = "}" THEN <<>> ELSE MembersAt(text, SkipSpace(text, end + 1))

\* the member whose key starts at index i and whose value starts at index v
MemberAt(text, i, v) ==
    <<[key |-> StringChars(text, i + 1), value |-> ValueAt(text, v)]>>
        \o MembersAfter(text, SkipSpace(text, ValueEnd(text, v)))

MembersAt(text, i) ==
    MemberAt(text, i, SkipSpace(text, SkipSpace(text, StringEnd(text, i + 1)) + 1))

ValueAt(text, i) ==
    IF CharAt(text, i) = "["
    THEN [type |-> "list",
          value |-> IF Reads(text, SkipSpace(text, i + 1), "]") THEN <<>>
                    ELSE ItemsAt(text, SkipSpace(text, i + 1))]
    ELSE IF CharAt(text, i) = "{"
    THEN [type |-> "dict",
          value |-> IF Reads(text, SkipSpace(text, i + 1), "}") THEN <<>>
                    ELSE MembersAt(text, SkipSpace(text, i + 1))]
    ELSE JsonValue(SubSeq(text, i, ValueEnd(text, i) - 1))

\* json.loads(text)
json_loads(text) ==
    IF ValueEnd(text, SkipSpace(text, 1)) = -1
         \/ SkipSpace(text, ValueEnd(text, SkipSpace(text, 1))) # Len(text) + 1
    THEN [type |-> "JSONDecodeError"]
    ELSE ValueAt(text, SkipSpace(text, 1))

\* the codes of the characters int() takes for white space
WHITESPACE ==
    {9, 10, 11, 12, 13, 32, 133, 160, 5760, 8232, 8233, 8239, 8287, 12288}
        \cup 8192..8202

\* the codes of the characters int() takes for the digit 0, each followed by
\* the characters for 1 to 9 (the decimal digits of Unicode 14.0, the tables
\* of CPython 3.11)
ZEROS ==
    {48, 1632, 1776, 1984, 2406, 2534, 2662, 2790, 2918, 3046, 3174,
     3302, 3430, 3558, 3664, 3792, 3872, 4160, 4240, 6112, 6160, 6470,
     6608, 6784, 6800, 6992, 7088, 7232, 7248, 42528, 43216, 43264,
     43472, 43504, 43600, 44016, 65296, 66720, 68912, 69734, 69872,
     69942, 70096, 70384, 70736, 70864, 71248, 71360, 71472, 71904,
     72016, 72784, 73040, 73120, 92768, 92864, 93008, 120782, 120792,
     120802, 120812, 120822, 123200, 123632, 125264, 130032}

\* the digit a character writes, -1 for a character that writes none
Decimal(c) ==
    IF \E z \in ZEROS : c - z \in 0..9
    THEN c - CHOOSE z \in ZEROS : c - z \in 0..9
    ELSE -1

\* str.strip() of white space
RECURSIVE strip(_)
strip(chars) ==
    IF Len(chars) > 0 /\ Head(chars) \in WHITESPACE THEN strip(Tail(chars))
    ELSE IF Len(chars) > 0 /\ chars[Len(chars)] \in WHITESPACE
    THEN strip(SubSeq(chars, 1, Len(chars) - 1))
    ELSE chars

\* the digits of an integer literal: digits, single underscores between them
IsLiteral(chars) ==
    /\ Len(chars) > 0
    /\ \A i \in DOMAIN chars :
          \/ Decimal(chars[i]) >= 0
          \/ /\ chars[i] = 95
             /\ i > 1 /\ i < Len(chars)
             /\ Decimal(chars[i - 1]) >= 0 /\ Decimal(chars[i + 1]) >= 0

\* the digits of a literal from its first digit that is not 0
RECURSIVE LiteralDigits(_)
LiteralDigits(chars) ==
    IF Len(chars) > 0 /\ (Head(chars) = 95 \/ Decimal(Head(chars)) = 0)
    THEN LiteralDigits(Tail(chars))
    ELSE SelectSeq(chars, LAMBDA c : c # 95)

RECURSIVE LiteralValue(_)
LiteralValue(digits) ==
    IF Len(digits) = 0 THEN 0
    ELSE LiteralValue(SubSeq(digits, 1, Len(digits) - 1)) * 10
             + Decimal(digits[Len(digits)])

\* the digits after the sign.  Defined for a literal of at most MaxDigits
\* digits after its zeros
IntOfLiteralDigits(negative, chars) ==
    CASE ~IsLiteral(chars) -> [raised |-> TRUE, value |-> 0]
      [] IsLiteral(chars) /\ Len(LiteralDigits(chars)) <= MaxDigits ->
            [raised |-> FALSE,
             value |-> IF negative THEN -LiteralValue(LiteralDigits(chars))
                       ELSE LiteralValue(LiteralDigits(chars))]

\* the sign and the digits of a str without white space around it
IntOfStripped(stripped) ==
    IF Len(stripped) > 0 /\ Head(stripped) \in {43, 45}
    THEN IntOfLiteralDigits(Head(stripped) = 45, Tail(stripped))
    ELSE IntOfLiteralDigits(FALSE, stripped)

\* int(str): white space around, a sign, the digits; ValueError for any other
\* str
IntOfStr(chars) == IntOfStripped(strip(chars))

\* int(float): the digits before the point; OverflowError for an infinity,
\* ValueError for a NaN.  Defined for a float under 1e9
IntOfFloat(x) ==
    CASE x.special # "" -> [raised |-> TRUE, value |-> 0]
      [] x.special = "" /\ x.point <= 0 -> [raised |-> FALSE, value |-> 0]
      [] x.special = "" /\ x.point \in 1..MaxDigits ->
            [raised |-> FALSE,
             value |-> (IF x.negative THEN -1 ELSE 1)
                       * (IF x.point <= Len(x.digits)
                          THEN DigitsValue(SubSeq(x.digits, 1, x.point))
                          ELSE DigitsValue(x.digits) * 10 ^ (x.point - Len(x.digits)))]

\* int() of the value of a text: TypeError for None, an array, an object; for
\* a text the decoder rejects the decoder has raised
IntOf(x) ==
    IF x.type = "int" THEN [raised |-> FALSE, value |-> x.value]
    ELSE IF x.type = "bool" THEN [raised |-> FALSE, value |-> IF x.value THEN 1 ELSE 0]
    ELSE IF x.type = "float" THEN IntOfFloat(x)
    ELSE IF x.type = "str" THEN IntOfStr(x.value)
    ELSE [raised |-> TRUE, value |-> 0]

\* the field values of the hosts the specifications classify
JsonLiterals == {"1", "0", "-1", "null", "true", "1.9"}

\* int() of these values, converted once
IntOfLiteral == [x \in JsonLiterals |-> IntOf(json_loads(x))]

\* a conversion that drops the sign
int_unsigned(x) ==
    LET n == IF x \in JsonLiterals THEN IntOfLiteral[x] ELSE IntOf(json_loads(x))
    IN [n EXCEPT !.value = IF @ < 0 THEN -@ ELSE @]

\* int(x), x the JSON text of the value
int(x) == IF x \in JsonLiterals THEN IntOfLiteral[x] ELSE IntOf(json_loads(x))

\* _active_indices: for i, key in enumerate(CRITERIA_KEYS), the i whose field
\* converts to 1; a field whose conversion raises is skipped
_active_indices(host) ==
    LET active(i) ==
            LET n == int(Get(host, CRITERIA_KEYS[i + 1], "0"))
            IN ~n.raised /\ n.value = 1
    IN SelectSeq(<<0, 1, 2, 3, 4>>, active)

\* set.pop() on a set of small integers
pop(S) == CHOOSE x \in S : \A y \in S : x <= y

\* d[key]: KeyError when the key is absent
Lookup(d, key) ==
    IF key \in DOMAIN d THEN [raised |-> FALSE, value |-> d[key]]
    ELSE [raised |-> TRUE, value |-> "KeyError"]

\* the codec with the two-criteria table read in reverse order
_code_for_active_reversed_pairs(active_idxs) ==
    LET n == Len(active_idxs)
    IN IF n = 2
       THEN [raised |-> FALSE,
             value |-> TWO_COMBOS[11 - CHOOSE i \in DOMAIN TWO_COMBOS :
                           frozenset(TWO_COMBOS[i][1]) = frozenset(active_idxs)][2]]
       ELSE IF n = 5 THEN [raised |-> FALSE, value |-> "5"]
       ELSE IF n = 4
       THEN Lookup(FOUR_OF_FIVE_MISSING_TO_CODE, pop({0, 1, 2, 3, 4} \ frozenset(active_idxs)))
       ELSE IF n = 3 THEN Lookup(THREE_SET_TO_CODE, frozenset(active_idxs))
       ELSE IF n = 1 THEN Lookup(ONE_INDEX_TO_CODE, active_idxs[1])
       ELSE [raised |-> FALSE, value |-> "0"]

_code_for_active(active_idxs) ==
    LET n == Len(active_idxs)
    IN IF n = 5 THEN [raised |-> FALSE, value |-> "5"]
       ELSE IF n = 4
       THEN Lookup(FOUR_OF_FIVE_MISSING_TO_CODE, pop({0, 1, 2, 3, 4} \ frozenset(active_idxs)))
       ELSE IF n = 3 THEN Lookup(THREE_SET_TO_CODE, frozenset(active_idxs))
       ELSE IF n = 2 THEN Lookup(TWO_SET_TO_CODE, frozenset(active_idxs))
       ELSE IF n = 1 THEN Lookup(ONE_INDEX_TO_CODE, active_idxs[1])
       ELSE [raised |-> FALSE, value |-> "0"]

\* an alias lookup that has no table: the code stands for its own alias
_alias_for_code_without_table(code) == code

\* ALIAS_BY_CODE.get(code, code)
_alias_for_code(code) == Get(ALIAS_BY_CODE, code, code)

NoCriteria == <<"Sin criterios de zombie activos">>

_description_for_active(active_idxs) ==
    LET parts == [k \in DOMAIN active_idxs |-> CRITERIA_DESCRIPTIONS[active_idxs[k] + 1]]
    IN IF parts # <<>> THEN parts ELSE NoCriteria

\* classify_host, once the active indices and their code are known
Classification(active, code) ==
    [raised |-> code.raised,
     code |-> code.value,
     alias |-> _alias_for_code(code.value),
     description |-> _description_for_active(active)]

\* classify_host, once the active indices are known
ClassifyActive(active) == Classification(active, _code_for_active(active))

\* classify_host: (code, alias, description)
classify_host(host) == ClassifyActive(_active_indices(host))

\* the names taken in descending index order
criteria_list_descending(indices) ==
    LET order == sorted_reverse(indices)
    IN [k \in DOMAIN order |-> CRITERIA_KEYS[order[k] + 1]]

\* the names [CRITERIA_KEYS[i] for i in sorted(indices)]
criteria_list(indices) ==
    LET order == sorted(indices)
    IN [k \in DOMAIN order |-> CRITERIA_KEYS[order[k] + 1]]

\* the literal part of get_criteria_combinations
LiteralCombinations ==
    ("1A" :> <<"Recent_CPU_decrease_criterion">>)
    @@ ("1B" :> <<"Recent_net_traffic_decrease_criterion">>)
    @@ ("1C" :> <<"Sustained_Low_CPU_criterion">>)
    @@ ("1D" :> <<"Excessively_constant_RAM_criterion">>)
    @@ ("1E" :> <<"Daily_CPU_profile_lost_criterion">>)
    @@ ("2A" :> <<"Recent_CPU_decrease_criterion", "Recent_net_traffic_decrease_criterion">>)
    @@ ("2B" :> <<"Recent_CPU_decrease_criterion", "Sustained_Low_CPU_criterion">>)
    @@ ("2C" :> <<"Recent_CPU_decrease_criterion", "Excessively_constant_RAM_criterion">>)
    @@ ("2D" :> <<"Recent_CPU_decrease_criterion", "Daily_CPU_profile_lost_criterion">>)
    @@ ("2E" :> <<"Recent_net_traffic_decrease_criterion", "Sustained_Low_CPU_criterion">>)
    @@ ("2F" :> <<"Recent_net_traffic_decrease_criterion", "Excessively_constant_RAM_criterion">>)
    @@ ("2G" :> <<"Recent_net_traffic_decrease_criterion", "Daily_CPU_profile_lost_criterion">>)
    @@ ("2H" :> <<"Sustained_Low_CPU_criterion", "Excessively_constant_RAM_criterion">>)
    @@ ("2I" :> <<"Sustained_Low_CPU_criterion", "Daily_CPU_profile_lost_criterion">>)
    @@ ("2J" :> <<"Excessively_constant_RAM_criterion", "Daily_CPU_profile_lost_criterion">>)

\* for combo_tuple, code in THREE_SET_TO_CODE.items(): combinations[code] = ...
ThreeCombinations ==
    [code \in {THREE_SET_TO_CODE[S] : S \in DOMAIN THREE_SET_TO_CODE} |->
        criteria_list(CHOOSE S \in DOMAIN THREE_SET_TO_CODE : THREE_SET_TO_CODE[S] = code)]

\* for missing_idx, code in FOUR_OF_FIVE_MISSING_TO_CODE.items(): ...
FourCombinations ==
    [code \in {FOUR_OF_FIVE_MISSING_TO_CODE[m] : m \in DOMAIN FOUR_OF_FIVE_MISSING_TO_CODE} |->
        criteria_list({0, 1, 2, 3, 4} \ {CHOOSE m \in DOMAIN FOUR_OF_FIVE_MISSING_TO_CODE :
                                             FOUR_OF_FIVE_MISSING_TO_CODE[m] = code})]

get_criteria_combinations ==
    update(update(update(update(LiteralCombinations, ThreeCombinations),
                         FourCombinations),
                  "5" :> CRITERIA_KEYS),
           "0" :> <<>>)

---------------------------------------------------------------------------
(* The classifier applied to every host and to every index list *)

\* the hosts: each criterion field is absent or holds one of the literals
ClassifierHosts ==
    UNION {[D -> JsonLiterals] : D \in SUBSET frozenset(CRITERIA_KEYS)}

\* the index lists _active_indices can return
ActiveLists == {sorted(S) : S \in SUBSET {0, 1, 2, 3, 4}}

Input(kind, arg) ==
    [op |-> kind, arg |-> arg, at |-> 0, raised |-> FALSE, value |-> "None"]

InitClassify ==
    /\ now = 0
    /\ current_zombies_file = NoCurrent("missing")
    /\ zombie_history_file = HistoryFile("missing", <<>>)
    /\ killed_zombies_file = KilledFile("missing", <<>>)
    /\ runs = 0
    /\ faults = 0
    /\ \/ \E host \in ClassifierHosts : ret = Input("host", host)
       \/ \E active_idxs \in ActiveLists : ret = Input("active_idxs", active_idxs)

ClassifyHost ==
    /\ ret.op = "host"
    /\ LET result == classify_host(ret.arg)
       IN ret' = IF result.raised THEN Raised("classify_host", ret.arg)
                 ELSE Returned("classify_host", ret.arg,
                               [code |-> result.code, alias |-> result.alias,
                                description |-> result.description])
    /\ UNCHANGED <<now, files, runs, faults>>

CodeForActive ==
    /\ ret.op = "active_idxs"
    /\ LET code == _code_for_active(ret.arg)
       IN ret' = IF code.raised THEN Raised("_code_for_active", ret.arg)
                 ELSE Returned("_code_for_active", ret.arg, code.value)
    /\ UNCHANGED <<now, files, runs, faults>>

\* get_criteria_combinations()[code] for the code just computed
GetCriteriaCombinations ==
    /\ ret.op = "_code_for_active"
    /\ ~ret.raised
    /\ LET names == Lookup(get_criteria_combinations, ret.value)
           arg == [active_idxs |-> ret.arg, code |-> ret.value]
       IN ret' = IF names.raised THEN Raised("get_criteria_combinations", arg)
                 ELSE Returned("get_criteria_combinations", arg, names.value)
    /\ UNCHANGED <<now, files, runs, faults>>

NextClassify == ClassifyHost \/ CodeForActive \/ GetCriteriaCombinations

SpecClassify == InitClassify /\ [][NextClassify]_vars

---------------------------------------------------------------------------
(* processor.py: process_host_data.  The message bus is the environment:   *)
(* `bus` names the first place where it fails, if any, and for             *)
(* publish_zombie_lifecycle_event which of its calls is the first to       *)
(* raise.                                                                  *)

MaxLifecycleCalls == 2

\* a bus that fails at `place`
Bus(place) == [place |-> place, call |-> 0]

Up == Bus("up")

BusOutcomes ==
    {Bus(place) : place \in {"up", "disabled", "config_raises", "publisher_raises",
                             "detection_raises", "stats_raises", "close_raises"}}
    \cup {[place |-> "lifecycle_raises", call |-> k] : k \in 1..MaxLifecycleCalls}

\* an except clause that names the publish errors only
ExceptPublishOnly(bus) ==
    bus.place \in {"detection_raises", "stats_raises", "lifecycle_raises"}

\* except Exception around the whole publishing step
ExceptException(bus) == TRUE

\* states_config.get(criterion_type, 0)
StateOrDisabled(states_config, criterion_type) == Get(states_config, criterion_type, 0)

\* a lookup whose default for the code "0" is 0
StateZeroDisabled(states_config, criterion_type) ==
    Get(states_config, criterion_type, IF criterion_type = "0" THEN 0 ELSE 1)

\* states_config.get(criterion_type, 1)
StateOrActive(states_config, criterion_type) == Get(states_config, criterion_type, 1)

\* the override that keeps is_zombie from the real classification
IsZombieBeforeOverride(code, criterion_state) == code # "0"

\* is_zombie: False when the code is disabled, else criterion_type != "0"
IsZombie(code, criterion_state) ==
    IF criterion_state = 0 THEN FALSE ELSE code # "0"

\* the body of the loop: the enriched copy of one host
Enriched(host, classification, criterion_state) ==
    LET disabled == criterion_state = 0
    IN update(host,
              [dynatrace_host_id |-> Get(host, "dynatrace_host_id", "None"),
               hostname |-> Get(host, "hostname", "None"),
               criterion_type |-> IF disabled THEN "0" ELSE classification.code,
               criterion_alias |-> IF disabled THEN "No Zombie Detected"
                                   ELSE classification.alias,
               criterion_description |-> IF disabled THEN NoCriteria
                                         ELSE classification.description,
               criterion_state |-> criterion_state,
               is_zombie |-> IsZombie(classification.code, criterion_state)])

\* the loop body from the classification on
Classified(host, states_config, classification) ==
    Enriched(host, classification, StateOrActive(states_config, classification.code))

\* enriched_host: classify the host, resolve the state of its code
enriched_host(host, states_config) ==
    Classified(host, states_config, classify_host(host))

enriched_hosts(host_data, states_config) ==
    [i \in DOMAIN host_data |-> enriched_host(host_data[i], states_config)]

\* every enriched host, zombie or not
all_hosts(hosts) == hosts

\* [host for host in enriched_hosts if host.get("is_zombie", False)]
zombies_only(hosts) ==
    LET is_zombie(host) == Get(host, "is_zombie", FALSE)
    IN SelectSeq(hosts, is_zombie)

\* the lifecycle events of a transition report: one zombie_new per new id,
\* then one zombie_killed per killed id
LifecycleEvents(tracking_info) ==
    IF tracking_info = <<>> THEN <<>>
    ELSE [k \in 1..Cardinality(tracking_info[1].new_zombies) |-> "zombie_new"]
         \o [k \in 1..Cardinality(tracking_info[1].killed_zombies) |-> "zombie_killed"]

\* the topics of the messages handed to the publisher before it fails; a
\* bus whose configuration has "enabled" false gets none
Published(bus, tracking_info) ==
    LET events == LifecycleEvents(tracking_info)
    IN IF bus.place \in {"disabled", "config_raises", "publisher_raises",
                         "detection_raises"}
       THEN <<>>
       ELSE IF tracking_info = <<>> THEN <<"detection">>
       ELSE IF bus.place = "stats_raises" THEN <<"detection">>
       ELSE IF bus.place = "lifecycle_raises" /\ bus.call <= Len(events)
       THEN <<"detection", "stats">> \o SubSeq(events, 1, bus.call - 1)
       ELSE <<"detection", "stats">> \o events

\* whether the publishing step fails: a call of the bus that is reached
\* raises (publish_tracking_stats and publish_zombie_lifecycle_event are
\* reached only with a transition report, close after every publish call)
BusFails(bus, tracking_info) ==
    \/ bus.place \in {"config_raises", "publisher_raises", "detection_raises",
                      "close_raises"}
    \/ bus.place = "stats_raises" /\ tracking_info # <<>>
    \/ bus.place = "lifecycle_raises" /\ bus.call <= Len(LifecycleEvents(tracking_info))

\* the tracking and publishing steps of process_host_data: `zombies` is the
\* list handed to the tracker and `done` what the tracker does with it
TrackAndPublish(hosts, zombies, done, enable_tracking, enable_kafka, bus) ==
    LET tracked == enable_tracking /\ zombies # <<>>
        tracking_info == IF tracked /\ ~done.raised THEN <<done.value>> ELSE <<>>
        escapes == enable_kafka /\ BusFails(bus, tracking_info) /\ ~ExceptException(bus)
    IN [raised |-> (tracked /\ done.raised) \/ escapes,
        tracked |-> tracked,
        current |-> IF tracked THEN done.current ELSE current_zombies_file,
        history |-> IF tracked THEN done.history ELSE zombie_history_file,
        killed |-> IF tracked THEN done.killed ELSE killed_zombies_file,
        published |-> IF enable_kafka /\ ~(tracked /\ done.raised)
                      THEN Published(bus, tracking_info) ELSE <<>>,
        value |-> IF tracking_info # <<>> /\ hosts # <<>>
                  THEN [hosts EXCEPT ![1] =
                            update(hosts[1], [_tracking_info |-> tracking_info[1]])]
                  ELSE hosts]

\* what one call of process_host_data writes, publishes and returns
\* the tracker called with the zombies, then the publishing step
Processed(hosts, zombies, enable_tracking, enable_kafka, bus) ==
    TrackAndPublish(hosts, zombies, SaveOutcome(zombies), enable_tracking, enable_kafka, bus)

\* the steps after the loop over the hosts
AfterEnrichment(hosts, enable_tracking, enable_kafka, bus) ==
    Processed(hosts, zombies_only(hosts), enable_tracking, enable_kafka, bus)

ProcessOutcome(host_data, states_config, enable_tracking, enable_kafka, bus) ==
    AfterEnrichment(enriched_hosts(host_data, states_config),
                    enable_tracking, enable_kafka, bus)

\* the state after the call and the record of the call
Called(done, arg) ==
    /\ now' = IF done.tracked THEN now + 1 ELSE now
    /\ runs' = runs + 1
    /\ UNCHANGED faults
    /\ current_zombies_file' = done.current
    /\ zombie_history_file' = done.history
    /\ killed_zombies_file' = done.killed
    /\ ret' = IF done.raised THEN Raised("process_host_data", arg)
              ELSE Returned("process_host_data", arg,
                            [hosts |-> done.value, published |-> done.published])

process_host_data(host_data, states_config, enable_tracking, enable_kafka, bus) ==
    Called(ProcessOutcome(host_data, states_config, enable_tracking, enable_kafka, bus),
           [host_data |-> host_data, states_config |-> states_config,
            enable_tracking |-> enable_tracking, enable_kafka |-> enable_kafka,
            bus |-> bus])

---------------------------------------------------------------------------
(* process_host_data called repeatedly on one data directory *)

MaxProcRuns == 2

\* a host record with criterion fields `fields`
HostRecord(id, hostname, fields) ==
    update([dynatrace_host_id |-> id, hostname |-> hostname], fields)

Criteria(v1, v2, v3, v4, v5) ==
    (CRITERIA_KEYS[1] :> v1) @@ (CRITERIA_KEYS[2] :> v2) @@ (CRITERIA_KEYS[3] :> v3)
    @@ (CRITERIA_KEYS[4] :> v4) @@ (CRITERIA_KEYS[5] :> v5)

Crawler == HostRecord("h1", "web", Criteria("0", "0", "1", "0", "0"))
Healthy == HostRecord("h2", "db", Criteria("0", "0", "0", "0", "0"))
Colossus == HostRecord("h3", "app", Criteria("1", "1", "1", "1", "1"))
\* h1 with two criteria, the others -1, null or absent, and no host name
Mummy ==
    [dynatrace_host_id |-> "h1"]
    @@ (CRITERIA_KEYS[1] :> "1") @@ (CRITERIA_KEYS[2] :> "1")
    @@ (CRITERIA_KEYS[3] :> "-1") @@ (CRITERIA_KEYS[4] :> "null")

HostData ==
    { <<>>, <<Crawler, Healthy>>, <<Mummy, Colossus>>, <<Healthy, Crawler, Colossus>> }

NoStates == [code \in {} |-> 1]

StatesConfigs ==
    { NoStates,
      ("0" :> 0) @@ ("1A" :> 1) @@ ("1B" :> 1) @@ ("1C" :> 0) @@ ("1D" :> 1) @@ ("1E" :> 1),
      ("1C" :> 1) @@ ("5" :> 0),
      ("0" :> 3) @@ ("1C" :> 2) @@ ("2A" :> -1) }

InitProc ==
    /\ now = 0
    /\ current_zombies_file = NoCurrent("missing")
    /\ zombie_history_file = HistoryFile("missing", <<>>)
    /\ killed_zombies_file = KilledFile("missing", <<>>)
    /\ ret = [op |-> "__init__", arg |-> <<>>, at |-> 0, raised |-> FALSE, value |-> "None"]
    /\ runs = 0
    /\ faults = 0

ProcessHostData ==
    \E host_data \in HostData, states_config \in StatesConfigs,
       enable_tracking \in BOOLEAN, enable_kafka \in BOOLEAN :
        \E bus \in IF enable_kafka THEN BusOutcomes ELSE {Up} :
            /\ runs < MaxProcRuns
            /\ process_host_data(host_data, states_config, enable_tracking,
                                 enable_kafka, bus)

NextProc == ProcessHostData

SpecProc == InitProc /\ [][NextProc]_vars

\* a step of process_host_data
ProcStep == runs' = runs + 1 /\ ret'.op = "process_host_data"

---------------------------------------------------------------------------
(* Properties of process_host_data *)

ProcReturned == ret.op = "process_host_data" /\ ~ret.raised

\* a step in which the tracker is called: it reads the clock
TrackedStep == ProcStep /\ now' = now + 1

\* the positions of the hosts whose classification code has state 0
DisabledHosts(host_data, states_config) ==
    {i \in DOMAIN host_data :
        LET code == classify_host(host_data[i]).code
        IN code \in DOMAIN states_config /\ states_config[code] = 0}

C12_Returned ==
    ProcReturned =>
        \A i \in DisabledHosts(ret.arg.host_data, ret.arg.states_config) :
            /\ ret.value.hosts[i].criterion_type = "0"
            /\ ret.value.hosts[i].criterion_alias = "No Zombie Detected"
            /\ ret.value.hosts[i].is_zombie = FALSE

C12_NotTracked ==
    TrackedStep =>
        \A i \in DisabledHosts(ret'.arg.host_data, ret'.arg.states_config) :
            LET id == ret'.arg.host_data[i].dynatrace_host_id
                last == zombie_history_file'.history[Len(zombie_history_file'.history)]
            IN /\ id \notin IdSet(current_zombies_file'.zombies)
               /\ id \notin current_zombies_file'.zombie_ids
               /\ id \notin IdSet(last.zombies)

\* C12: a host whose classification code has value 0 in the states map is
\* returned with criterion_type "0", alias "No Zombie Detected" and is_zombie
\* False, whichever criteria are active, and is not in the list handed to the
\* lifecycle tracker.
C12_DisabledCodeIsNoZombie == []C12_Returned /\ [][C12_NotTracked]_vars

\* a call that disables code 1C for a host with one active criterion while
\* another host of the same call is tracked
C12_Witness ==
    /\ ProcReturned
    /\ \E i \in DisabledHosts(ret.arg.host_data, ret.arg.states_config) :
          /\ classify_host(ret.arg.host_data[i]).code = "1C"
          /\ ret.value.hosts[i].criterion_type = "0"
    /\ "_tracking_info" \in DOMAIN ret.value.hosts[1]
    /\ current_zombies_file.timestamp = isoformat(ret.at)
    /\ current_zombies_file.zombie_ids = {"h3"}

\* the positions of the hosts whose classification code is not a key of the
\* states map
AbsentHosts(host_data, states_config) ==
    {i \in DOMAIN host_data :
        classify_host(host_data[i]).code \notin DOMAIN states_config}

\* C13: a host whose classification code is absent from the states map is
\* treated as active: its record keeps the code and the alias classify_host
\* gave, has criterion_state 1, and is_zombie is True iff the code is not
\* "0"; the call does not raise.
C13_AbsentCodeIsActive ==
    ret.op = "process_host_data" =>
        /\ ~ret.raised
        /\ \A i \in AbsentHosts(ret.arg.host_data, ret.arg.states_config) :
              LET classification == classify_host(ret.arg.host_data[i])
                  host == ret.value.hosts[i]
              IN /\ host.criterion_type = classification.code
                 /\ host.criterion_alias = classification.alias
                 /\ host.criterion_state = 1
                 /\ host.is_zombie = (classification.code # "0")

\* an empty states map: the host with one criterion is a zombie of type 1C,
\* the host with none is not
C13_Witness ==
    /\ ProcReturned
    /\ ret.arg.states_config = NoStates
    /\ \E i, j \in DOMAIN ret.value.hosts :
          /\ ret.value.hosts[i].criterion_type = "1C"
          /\ ret.value.hosts[i].criterion_alias = "Crawler"
          /\ ret.value.hosts[i].is_zombie
          /\ ret.value.hosts[j].criterion_type = "0"
          /\ ~ret.value.hosts[j].is_zombie

\* the positions of the hosts with no active criterion when the states map
\* has no entry for "0"
ZeroAbsentHosts(host_data, states_config) ==
    {i \in AbsentHosts(host_data, states_config) :
        classify_host(host_data[i]).code = "0"}

\* C14 as stated: when the states map has no entry for "0", a host with no
\* active criterion carries criterion_state 0.
C14_ZeroAbsentIsDisabled ==
    ProcReturned =>
        \A i \in ZeroAbsentHosts(ret.arg.host_data, ret.arg.states_config) :
            ret.value.hosts[i].criterion_state = 0

\* C14, amended: when the states map has no entry for "0", a host with no
\* active criterion carries criterion_state 1, the default of every absent
\* code; its criterion_type is "0", its alias "No Zombie Detected" and
\* is_zombie is False.
C14_ZeroAbsentIsActive ==
    ProcReturned =>
        \A i \in ZeroAbsentHosts(ret.arg.host_data, ret.arg.states_config) :
            /\ ret.value.hosts[i].criterion_state = 1
            /\ ret.value.hosts[i].criterion_type = "0"
            /\ ret.value.hosts[i].criterion_alias = "No Zombie Detected"
            /\ ret.value.hosts[i].is_zombie = FALSE

\* a host with no active criterion processed under a states map that has
\* entries, but none for "0"
C14_Witness ==
    /\ ProcReturned
    /\ ret.arg.states_config = ("1C" :> 1) @@ ("5" :> 0)
    /\ ZeroAbsentHosts(ret.arg.host_data, ret.arg.states_config) # {}

\* the record without the field added after the tracker has run
WithoutTrackingInfo(host) ==
    [key \in DOMAIN host \ {"_tracking_info"} |-> host[key]]

\* the returned records whose resolved code is not "0"
ResolvedZombies(hosts) ==
    LET Resolved(host) == host.criterion_type # "0"
    IN SelectSeq([i \in DOMAIN hosts |-> WithoutTrackingInfo(hosts[i])], Resolved)

C15_Returned ==
    ProcReturned =>
        \A i \in DOMAIN ret.value.hosts :
            ret.value.hosts[i].is_zombie = (ret.value.hosts[i].criterion_type # "0")

C15_Tracked ==
    ProcStep =>
        /\ TrackedStep
           => /\ ret'.arg.enable_tracking
              /\ current_zombies_file'.zombies = ResolvedZombies(ret'.value.hosts)
              /\ zombie_history_file'.history[Len(zombie_history_file'.history)].zombies
                     = ResolvedZombies(ret'.value.hosts)
        /\ (ret'.arg.enable_tracking /\ ResolvedZombies(ret'.value.hosts) # <<>>)
           => "_tracking_info" \in DOMAIN ret'.value.hosts[1]

\* C15: in every record process_host_data returns, under every states map
\* (values other than 0 and 1 included), is_zombie is True iff criterion_type
\* is not "0"; the list handed to the tracker is exactly the hosts whose
\* resolved code is not "0".
C15_ZombieIffResolvedCode == []C15_Returned /\ [][C15_Tracked]_vars

\* a states map with the value 2 for 1C: the host stays a zombie and is
\* tracked, the host with no criterion is not
C15_Witness ==
    /\ ProcReturned
    /\ \E i, j \in DOMAIN ret.value.hosts :
          /\ ret.value.hosts[i].criterion_state = 2
          /\ ret.value.hosts[i].is_zombie
          /\ ret.value.hosts[j].criterion_state = 3
          /\ ~ret.value.hosts[j].is_zombie
    /\ "_tracking_info" \in DOMAIN ret.value.hosts[1]
    /\ current_zombies_file.timestamp = isoformat(ret.at)
    /\ current_zombies_file.zombie_ids = {"h1"}

\* a step of process_host_data compared with the same call made with
\* enable_kafka=False from the same stores
C20_SameAsWithoutKafka ==
    ProcStep =>
        LET arg == ret'.arg
            off == ProcessOutcome(arg.host_data, arg.states_config,
                                  arg.enable_tracking, FALSE, Up)
        IN /\ ~ret'.raised
           /\ ~off.raised
           /\ ret'.value.hosts = off.value
           /\ current_zombies_file' = off.current
           /\ zombie_history_file' = off.history
           /\ killed_zombies_file' = off.killed

\* C20: whatever the message bus does (loading its configuration, building
\* the publisher or a publish call raising), process_host_data returns
\* normally the records, and leaves the stores in the state, of the same call
\* with enable_kafka=False; what the tracker has written stays written.
C20_BusFailureChangesNothing == [][C20_SameAsWithoutKafka]_vars

\* a tracked call whose publisher fails after the first message: the
\* snapshot of the call is on disk and the transition report is returned
C20_Witness ==
    /\ ProcReturned
    /\ ret.arg.enable_kafka
    /\ ret.arg.bus.place = "stats_raises"
    /\ ret.value.published = <<"detection">>
    /\ ret.value.hosts # <<>>
    /\ "_tracking_info" \in DOMAIN ret.value.hosts[1]
    /\ current_zombies_file.timestamp = isoformat(ret.at)
    /\ runs = 2

---------------------------------------------------------------------------
(* Properties of the classifier *)

Subsets == SUBSET {0, 1, 2, 3, 4}

\* the criterion names at the indices of S, in ascending index order
NamesOf(S) ==
    LET Chosen(key) == \E i \in S : CRITERIA_KEYS[i + 1] = key
    IN SelectSeq(CRITERIA_KEYS, Chosen)

\* distinct subsets get distinct codes
EncodeInjective ==
    \A S, T \in Subsets :
        _code_for_active(sorted(S)) = _code_for_active(sorted(T)) => S = T

\* every code of ALIAS_BY_CODE is the code of a subset whose entry of
\* get_criteria_combinations lists the keys of the subset in index order
DecodeInvertsEncode ==
    \A code \in DOMAIN ALIAS_BY_CODE :
        /\ code \in DOMAIN get_criteria_combinations
        /\ \E S \in Subsets :
              /\ _code_for_active(sorted(S)) = [raised |-> FALSE, value |-> code]
              /\ get_criteria_combinations[code] = NamesOf(S)

\* C16: over the 32 subsets of {0..4}, _code_for_active gives distinct
\* subsets distinct codes, get_criteria_combinations maps the code of S back
\* to the CRITERIA_KEYS at the indices of S in ascending order, and every
\* code of ALIAS_BY_CODE has such an entry.
C16_CodecInverse ==
    /\ EncodeInjective
    /\ DecodeInvertsEncode
    /\ ret.op = "_code_for_active" => ~ret.raised
    /\ ret.op = "get_criteria_combinations"
       => /\ ~ret.raised
          /\ ret.value = NamesOf(frozenset(ret.arg.active_idxs))

\* the entry of code 3F, looked up after encoding [0, 3, 4]
C16_Witness ==
    /\ ret.op = "get_criteria_combinations"
    /\ ret.arg.active_idxs = <<0, 3, 4>>
    /\ ret.arg.code = "3F"
    /\ ret.value = <<"Recent_CPU_decrease_criterion",
                     "Excessively_constant_RAM_criterion",
                     "Daily_CPU_profile_lost_criterion">>

\* the reference encoding: the codes of each size, by letter A, B, C, ...
CodesOfSize ==
    << <<"1A", "1B", "1C", "1D", "1E">>,
       <<"2A", "2B", "2C", "2D", "2E", "2F", "2G", "2H", "2I", "2J">>,
       <<"3A", "3B", "3C", "3D", "3E", "3F", "3G", "3H", "3I", "3J">>,
       <<"4A", "4B", "4C", "4D", "4E">> >>

\* s comes before t in lexicographic order (two ascending tuples of one length)
LexLess(s, t) ==
    \E i \in DOMAIN s : s[i] < t[i] /\ \A k \in 1..(i - 1) : s[k] = t[k]

\* the number of subsets of the size of S whose ascending tuple comes before
\* that of S
LexRank(S) ==
    Cardinality({T \in Subsets :
        Cardinality(T) = Cardinality(S) /\ LexLess(sorted(T), sorted(S))})

CanonicalCode(S) ==
    LET size == Cardinality(S)
    IN IF size = 0 THEN "0"
       ELSE IF size = 5 THEN "5"
       ELSE IF size = 1 THEN CodesOfSize[1][(CHOOSE i \in S : TRUE) + 1]
       ELSE IF size = 4 THEN CodesOfSize[4][(CHOOSE i \in {0, 1, 2, 3, 4} \ S : TRUE) + 1]
       ELSE CodesOfSize[size][LexRank(S) + 1]

\* C17: for every subset of {0..4} _code_for_active returns the code of the
\* canonical encoding: "0" and "5" for sizes 0 and 5, the letter at the
\* offset of the active index for size 1 and of the missing index for size
\* 4, the letter at the lexicographic rank of the ascending tuple for sizes
\* 2 and 3.
C17_CanonicalEncoding ==
    /\ \A S \in Subsets :
          _code_for_active(sorted(S)) = [raised |-> FALSE, value |-> CanonicalCode(S)]
    /\ ret.op = "_code_for_active"
       => ~ret.raised /\ ret.value = CanonicalCode(frozenset(ret.arg))

\* [1, 3, 4] is the ninth triple and [2, 4] the ninth pair
C17_Witness ==
    /\ ret.op = "_code_for_active"
    /\ ret.arg = <<2, 4>>
    /\ ret.value = "2I"
    /\ LexRank({2, 4}) = 8
    /\ _code_for_active(<<1, 3, 4>>).value = "3I"

\* C18: ALIAS_BY_CODE has one alias for each of the 32 codes _code_for_active
\* produces and for no other key; the aliases are pairwise distinct, not
\* empty and different from their code, so the alias classify_host returns
\* is never the code itself.
C18_AliasTable ==
    /\ DOMAIN ALIAS_BY_CODE = {_code_for_active(sorted(S)).value : S \in Subsets}
    /\ Cardinality(DOMAIN ALIAS_BY_CODE) = 32
    /\ \A c, d \in DOMAIN ALIAS_BY_CODE :
          ALIAS_BY_CODE[c] = ALIAS_BY_CODE[d] => c = d
    /\ \A c \in DOMAIN ALIAS_BY_CODE :
          /\ ALIAS_BY_CODE[c] # ""
          /\ ALIAS_BY_CODE[c] # c
          /\ _alias_for_code(c) = ALIAS_BY_CODE[c]
    /\ (ret.op = "classify_host" /\ ~ret.raised)
       => /\ ret.value.alias # ret.value.code
          /\ ret.value.alias = ALIAS_BY_CODE[ret.value.code]

\* a host with the last two criteria active is named Apparition
C18_Witness ==
    /\ ret.op = "classify_host"
    /\ ~ret.raised
    /\ ret.value.code = "2J"
    /\ ret.value.alias = "Apparition"

\* host with the field `key` set to `literal`, or removed
SetField(host, key, literal) ==
    [k \in DOMAIN host \cup {key} |-> IF k = key THEN literal ELSE host[k]]
RemoveField(host, key) == [k \in DOMAIN host \ {key} |-> host[k]]

\* the hosts that differ from `host` in one field that is not 1, given
\* another value among 0, -1 and missing
NonActiveVariants(host) ==
    LET free == {key \in frozenset(CRITERIA_KEYS) : Get(host, key, "0") # "1"}
    IN {SetField(host, key, literal) : key \in free, literal \in {"0", "-1"}}
       \cup {RemoveField(host, key) : key \in free}

\* the hosts whose criterion fields are 1, 0, -1, null or missing
PlainHosts ==
    {host \in ClassifierHosts :
        \A key \in DOMAIN host : host[key] \in {"1", "0", "-1", "null"}}

\* C19: classify_host returns for every host whose criterion fields are 1,
\* 0, -1 or missing (or null), and its result depends only on the fields that
\* are 1: giving a field that is not 1 another value among 0, -1 and missing
\* changes neither the code, the alias nor the description.
C19_OnlyOnesCount ==
    (ret.op = "classify_host" /\ ret.arg \in PlainHosts) =>
        /\ ~ret.raised
        /\ ret.value.code \in DOMAIN ALIAS_BY_CODE
        /\ _active_indices(ret.arg) =
              sorted({i \in {0, 1, 2, 3, 4} : Get(ret.arg, CRITERIA_KEYS[i + 1], "0") = "1"})
        /\ \A other \in NonActiveVariants(ret.arg) :
              LET result == classify_host(other)
              IN /\ ~result.raised
                 /\ result.code = ret.value.code
                 /\ result.alias = ret.value.alias
                 /\ result.description = ret.value.description

\* a host with one field at 1, one at -1, one at 0 and two missing
C19_Witness ==
    /\ ret.op = "classify_host"
    /\ ret.arg = (CRITERIA_KEYS[1] :> "-1") @@ (CRITERIA_KEYS[3] :> "1")
                     @@ (CRITERIA_KEYS[4] :> "0")
    /\ ret.value.code = "1C"
    /\ ret.value.alias = "Crawler"
    /\ ret.value.description = <<CRITERIA_DESCRIPTIONS[3]>>


---------------------------------------------------------------------------
(* The statistics of a call *)

\* C21: the statistics a save_current_zombies call returns are the sizes of
\* the three id sets the same call returns (new_zombies = |new|,
\* persisting_zombies = |persisting|, killed_zombies = |killed|), their
\* total_zombies is the number of zombie records of the argument, and the
\* snapshot the call writes holds the same statistics.
C21_Step ==
    SaveReturned =>
        LET v == ret'.value
        IN /\ v.stats.new_zombies = Cardinality(v.new_zombies)
           /\ v.stats.persisting_zombies = Cardinality(v.persisting_zombies)
           /\ v.stats.killed_zombies = Cardinality(v.killed_zombies)
           /\ v.stats.total_zombies = Len(ret'.arg)
           /\ current_zombies_file'.status = "ok"
           /\ current_zombies_file'.stats = v.stats
           /\ current_zombies_file'.zombies = ret'.arg
C21_StatsAreSetSizes == [][C21_Step]_vars

\* a call returned with one new, one persisting and one killed id, for an
\* argument of two records
C21_Witness ==
    /\ ret.op = "save_current_zombies"
    /\ ~ret.raised
    /\ ret.value.stats = [total_zombies |-> 2, new_zombies |-> 1,
                          persisting_zombies |-> 1, killed_zombies |-> 1]
    /\ current_zombies_file.stats = ret.value.stats


---------------------------------------------------------------------------
(* One snapshot per run *)

\* a call of process_host_data with tracking enabled has returned
TrackingEnabledCall ==
    ProcReturned /\ ret.arg.enable_tracking

\* the snapshot and the last history entry are those of the call
C22_Snapshot ==
    TrackingEnabledCall =>
        /\ current_zombies_file.status = "ok"
        /\ current_zombies_file.zombies = ResolvedZombies(ret.value.hosts)
        /\ zombie_history_file.history # <<>>
        /\ zombie_history_file.history[Len(zombie_history_file.history)].zombies
              = ResolvedZombies(ret.value.hosts)
        /\ zombie_history_file.history[Len(zombie_history_file.history)].timestamp
              = current_zombies_file.timestamp

\* after a call without any zombie no id is in the snapshot, and every id of
\* an earlier snapshot has a kill record
C22_Killed ==
    (TrackingEnabledCall /\ ResolvedZombies(ret.value.hosts) = <<>>) =>
        /\ current_zombies_file.zombie_ids = {}
        /\ \A i \in DOMAIN zombie_history_file.history :
              \A id \in IdSet(zombie_history_file.history[i].zombies) :
                  \E k \in DOMAIN killed_zombies_file.killed_zombies :
                      killed_zombies_file.killed_zombies[k].dynatrace_host_id = id

\* C22: with tracking enabled every process_host_data call records exactly
\* one snapshot, also when no host of the call is a zombie; so a host that was
\* a zombie in the previous run is, after a run without any zombie, recorded
\* as killed by that run and no longer in the current snapshot.
C22_OneSnapshotPerRun == C22_Snapshot /\ C22_Killed

\* the same for the calls that have at least one zombie
C22_SnapshotWhenZombies ==
    (TrackingEnabledCall /\ ResolvedZombies(ret.value.hosts) # <<>>) => C22_Snapshot

\* a call with tracking enabled and no zombie that leaves the zombies of the
\* previous run in the current snapshot, without a kill record
C22_StaleSnapshot ==
    /\ ProcReturned
    /\ ret.arg.enable_tracking
    /\ ResolvedZombies(ret.value.hosts) = <<>>
    /\ current_zombies_file.status = "ok"
    /\ current_zombies_file.zombies # <<>>
    /\ killed_zombies_file.killed_zombies = <<>>


---------------------------------------------------------------------------
(* _code_for_active on arbitrary index lists *)

MaxIndex == 5

\* the lists of up to six indices 0..MaxIndex: in range or not, ascending or
\* not, with or without repetitions
IndexLists == UNION {[1..n -> 0..MaxIndex] : n \in 0..6}

InitIndexLists ==
    /\ now = 0
    /\ current_zombies_file = NoCurrent("missing")
    /\ zombie_history_file = HistoryFile("missing", <<>>)
    /\ killed_zombies_file = KilledFile("missing", <<>>)
    /\ runs = 0
    /\ faults = 0
    /\ \E active_idxs \in IndexLists : ret = Input("active_idxs", active_idxs)

NextIndexLists == CodeForActive \/ GetCriteriaCombinations

SpecIndexLists == InitIndexLists /\ [][NextIndexLists]_vars

\* an index outside 0..4, a repeated index, or more than five elements
Malformed(active_idxs) ==
    \/ \E i \in DOMAIN active_idxs : active_idxs[i] \notin {0, 1, 2, 3, 4}
    \/ \E i, j \in DOMAIN active_idxs : i # j /\ active_idxs[i] = active_idxs[j]
    \/ Len(active_idxs) > 5

\* C24: for every index list that holds an index outside 0..4, a repeated
\* index or more than five elements, _code_for_active raises instead of
\* returning a code.
C24_MalformedRaises ==
    (ret.op = "_code_for_active" /\ Malformed(ret.arg)) => ret.raised

\* the malformed lists of one, two or three elements raise KeyError
C24_ShortMalformedRaises ==
    (ret.op = "_code_for_active" /\ Malformed(ret.arg) /\ Len(ret.arg) \in {1, 2, 3})
        => ret.raised

\* four in-range indices and one out of range: code "5" is returned
C24_ReturnedForMalformed ==
    /\ ret.op = "_code_for_active"
    /\ ret.arg = <<0, 1, 2, 3, 5>>
    /\ ~ret.raised
    /\ ret.value = "5"


---------------------------------------------------------------------------
(* Cleanup of the killed registry when the history log is gone *)

\* C25: cleanup_old_data(d) removes the killed-registry entries older than
\* the cutoff whatever the state of the history log: after a call that
\* returns, also with the history log missing or corrupt, no killed-registry
\* entry older than d days remains.
C25_Step ==
    CleanupReturned =>
        \A i \in DOMAIN killed_zombies_file'.killed_zombies :
            now - fromisoformat(killed_zombies_file'.killed_zombies[i].killed_at)
                <= timedelta_days(ret'.arg)
C25_KilledCleanedAlways == [][C25_Step]_vars

\* the same, for the calls that find a history log they can read
C25_ReadableHistory ==
    zombie_history_file.status = "ok" => C25_Step
C25_KilledCleanedWithHistory == [][C25_ReadableHistory]_vars

\* cleanup_old_data(0) returned on a store without history log and a kill
\* record stamped before the call is still in the registry
C25_OldRecordKept ==
    /\ ret.op = "cleanup_old_data"
    /\ ret.arg = 0
    /\ ~ret.raised
    /\ zombie_history_file.status \in Degraded
    /\ \E i \in DOMAIN killed_zombies_file.killed_zombies :
          fromisoformat(killed_zombies_file.killed_zombies[i].killed_at) < ret.at


---------------------------------------------------------------------------
(* save_current_zombies interrupted between its writes *)

\* where a call can stop.  Each file is written by open(path, "w"), which
\* empties it, followed by json.dump: a call that stops between the two, or
\* inside json.dump, leaves a file that json.load rejects.  A call with
\* killed ids that stops after the registry is written and before it returns
\* leaves the files of a completed call.
InterruptPoints ==
    {"before_current", "current_opened", "after_current",
     "history_opened", "after_history", "killed_opened", "after_killed"}

\* the points after the write of the snapshot and before the registry is
\* opened
BetweenWrites == {"after_current", "history_opened", "after_history"}

\* the call that was interrupted: it never returns; the record keeps the
\* point where it stopped and the transition sets it had computed before
\* its first write
Interrupted(op, arg, value) ==
    [op |-> op, arg |-> arg, at |-> now, raised |-> TRUE, value |-> value]

\* the registry written first, then the snapshot, then the history log
InterruptedOutcomeKilledFirst(done, point) ==
    [current |-> IF point \in {"after_history", "killed_opened", "after_killed"}
                 THEN done.current
                 ELSE current_zombies_file,
     history |-> zombie_history_file,
     killed |-> IF point = "before_current" THEN killed_zombies_file ELSE done.killed,
     value |-> [point |-> point, report |-> done.value]]

\* the files a call leaves when it stops at `point`: the writes come in the
\* order snapshot, history log, killed registry
InterruptedOutcome(done, point) ==
    [current |-> IF point = "before_current" THEN current_zombies_file
                 ELSE IF point = "current_opened" THEN NoCurrent("corrupt")
                 ELSE done.current,
     history |-> IF point \in {"before_current", "current_opened", "after_current"}
                 THEN zombie_history_file
                 ELSE IF point = "history_opened" THEN HistoryFile("corrupt", <<>>)
                 ELSE done.history,
     killed |-> IF point = "killed_opened" THEN KilledFile("corrupt", <<>>)
                ELSE IF point = "after_killed" THEN done.killed
                ELSE killed_zombies_file,
     value |-> [point |-> point, report |-> done.value]]

interrupted_save(done, zombies) ==
    /\ now' = now + 1
    /\ runs' = runs + 1
    /\ faults' = faults + 1
    /\ current_zombies_file' = done.current
    /\ zombie_history_file' = done.history
    /\ killed_zombies_file' = done.killed
    /\ ret' = Interrupted("save_current_zombies", zombies, done.value)

\* the registry is opened only by a call that has killed ids
InterruptedSave ==
    \E zombies \in ZombieLists, point \in InterruptPoints :
        /\ runs < MaxRuns
        /\ now < MaxClock
        /\ faults < MaxFaults
        /\ point \in {"killed_opened", "after_killed"}
              => SaveOutcome(zombies).value.killed_zombies # {}
        /\ interrupted_save(InterruptedOutcome(SaveOutcome(zombies), point), zombies)

NextCrash == SaveCurrentZombies \/ InterruptedSave

SpecCrash == Init /\ [][NextCrash]_vars

InterruptedStep == faults' = faults + 1

\* the writes come in order: a call that stopped has touched the history log
\* only after it wrote the snapshot, and the registry only after it wrote
\* the history entry
C26_Order ==
    InterruptedStep =>
        /\ zombie_history_file' # zombie_history_file =>
              /\ current_zombies_file'.status = "ok"
              /\ current_zombies_file'.zombies = ret'.arg
              /\ current_zombies_file'.timestamp = isoformat(now)
        /\ killed_zombies_file' # killed_zombies_file =>
              /\ zombie_history_file'.status = "ok"
              /\ zombie_history_file'.history # <<>>
              /\ zombie_history_file'.history[Len(zombie_history_file'.history)].timestamp
                    = isoformat(now)

\* the call that stopped between the write of the snapshot and the opening
\* of the registry has overwritten the snapshot and has not touched the
\* registry: the ids that left the zombie set are out of the snapshot
\* without a kill record
C26_Interrupted ==
    (InterruptedStep /\ ret'.value.point \in BetweenWrites) =>
        /\ current_zombies_file'.status = "ok"
        /\ current_zombies_file'.zombies = ret'.arg
        /\ current_zombies_file'.timestamp = isoformat(now)
        /\ killed_zombies_file' = killed_zombies_file
        /\ ret'.value.report.killed_zombies =
              IdSet(current_zombies_file.zombies) \ IdSet(ret'.arg)
        /\ \A id \in ret'.value.report.killed_zombies :
              id \notin IdSet(current_zombies_file'.zombies)

\* no call, completed or not, adds a kill record for an id that is not in
\* the snapshot the call finds
C26_NoLateRecord ==
    \A id \in HostIds :
        id \notin IdSet(current_zombies_file.zombies) =>
            CountOf(killed_zombies_file'.killed_zombies, id)
                <= CountOf(killed_zombies_file.killed_zombies, id)

\* C26: save_current_zombies writes the snapshot, then the history entry,
\* then the kill records, and not atomically: a call interrupted after the
\* snapshot was overwritten and before the registry was written leaves the
\* ids that left the zombie set without a kill record, and no later call
\* records one for that transition.
C26_LostTransition == [][C26_Order /\ C26_Interrupted /\ C26_NoLateRecord]_vars

\* ids seen in a recorded snapshot that are neither in the current snapshot
\* nor in the killed registry
Orphans ==
    {id \in HostIds :
        /\ \E i \in DOMAIN zombie_history_file.history :
              id \in IdSet(zombie_history_file.history[i].zombies)
        /\ id \notin IdSet(current_zombies_file.zombies)
        /\ EntriesFor(id) = {}}

\* a call was interrupted when h3 left the zombie set; a later call has
\* completed and recorded the kill of another id, and h3 is still without a
\* kill record
C26_Witness ==
    /\ faults = 1
    /\ ret.op = "save_current_zombies"
    /\ ~ret.raised
    /\ "h3" \in Orphans
    /\ "h3" \notin ret.value.killed_zombies
    /\ killed_zombies_file.killed_zombies # <<>>


---------------------------------------------------------------------------
(* Completed calls of one writer, without cleanup *)

NextSaves == SaveCurrentZombies \/ ClockAdvance

SpecSaves == Init /\ [][NextSaves]_vars

\* C27: after any sequence of completed save_current_zombies calls of one
\* writer, with no cleanup call, every host id contained in some recorded
\* snapshot is in the current snapshot or has at least one entry in the
\* killed registry.
C27_SeenIsActiveOrKilled ==
    /\ Orphans = {}
    /\ \A i \in DOMAIN zombie_history_file.history :
          \A id \in IdSet(zombie_history_file.history[i].zombies) :
              \/ id \in current_zombies_file.zombie_ids
              \/ \E k \in DOMAIN killed_zombies_file.killed_zombies :
                    killed_zombies_file.killed_zombies[k].dynatrace_host_id = id

\* two ids left the zombie set in one call and both have their kill record,
\* while a third one is in the current snapshot
C27_Witness ==
    /\ Len(zombie_history_file.history) >= 3
    /\ EntriesFor("h1") # {}
    /\ EntriesFor("h2") # {}
    /\ \E i \in EntriesFor("h1"), j \in EntriesFor("h2") :
          killed_zombies_file.killed_zombies[i].killed_at
              = killed_zombies_file.killed_zombies[j].killed_at
    /\ current_zombies_file.zombie_ids = {"h1", "h3"}


---------------------------------------------------------------------------
(* A kill record and a later revival *)

\* an id of the current snapshot that has a record in the killed registry
Revived(id) ==
    /\ id \in IdSet(current_zombies_file.zombies)
    /\ EntriesFor(id) # {}

C28_Revived ==
    \A id \in HostIds :
        Revived(id) =>
            LET killed_info == is_zombie_killed(id)
                lifecycle == get_zombie_lifecycle(id)
            IN /\ ~killed_info.raised
               /\ killed_info.value # <<>>
               /\ killed_info.value[1].dynatrace_host_id = id
               /\ ~lifecycle.raised
               /\ lifecycle.value.is_active = TRUE
               /\ lifecycle.value.killed_info = killed_info.value

\* a save_current_zombies call removes no kill record: what is_zombie_killed
\* returned for an id before the call it returns after it, also when the
\* call puts the id back into the snapshot
C28_SaveKeeps ==
    SaveReturned =>
        \A id \in HostIds :
            FirstMatch(killed_zombies_file.killed_zombies, id) # <<>> =>
                FirstMatch(killed_zombies_file'.killed_zombies, id)
                    = FirstMatch(killed_zombies_file.killed_zombies, id)

\* C28: a kill record outlives a revival: after an id was killed and is then
\* contained in a later snapshot, is_zombie_killed(id) still returns its kill
\* record, and get_zombie_lifecycle(id) reports is_active True together with
\* a non-null killed_info.
C28_KillRecordOutlivesRevival == []C28_Revived /\ [][C28_SaveKeeps]_vars

\* h3 was killed and is back in the snapshot of the last call, which reports
\* it as new
C28_Witness ==
    /\ ret.op = "save_current_zombies"
    /\ ~ret.raised
    /\ "h3" \in ret.value.new_zombies
    /\ Revived("h3")
    /\ get_zombie_lifecycle("h3").value.is_active
    /\ get_zombie_lifecycle("h3").value.killed_info # <<>>
    /\ fromisoformat(get_zombie_lifecycle("h3").value.killed_info[1].killed_at) < ret.at


---------------------------------------------------------------------------
(* Cleanup and the current snapshot *)

\* a step of cleanup_old_data
CleanupStep ==
    /\ ret'.op = "cleanup_old_data"
    /\ ret'.at = now
    /\ now' = now + 1

C29_Step ==
    CleanupStep =>
        /\ current_zombies_file' = current_zombies_file
        /\ \A zombies \in ZombieLists :
              (SaveOutcome(zombies).value)' = SaveOutcome(zombies).value
        /\ \A id \in IdSet(current_zombies_file.zombies) :
              (get_zombie_lifecycle(id).value.is_active)' = TRUE

\* C29: cleanup_old_data leaves the current snapshot unchanged for every
\* days_to_keep: the transition report of the next save_current_zombies call
\* is the one it would be without the cleanup, and an id of the current
\* snapshot stays is_active, also when the cleanup removed all its history
\* entries.
C29_CleanupKeepsSnapshot == [][C29_Step]_vars

\* cleanup_old_data(0) emptied the history log and h1, in the snapshot, is
\* reported active with no detection
C29_Witness ==
    /\ ret.op = "cleanup_old_data"
    /\ ret.arg = 0
    /\ zombie_history_file.status = "ok"
    /\ zombie_history_file.history = <<>>
    /\ "h1" \in IdSet(current_zombies_file.zombies)
    /\ get_zombie_lifecycle("h1").value.is_active
    /\ get_zombie_lifecycle("h1").value.total_detections = 0
    /\ SaveOutcome(<<>>).value.killed_zombies = IdSet(current_zombies_file.zombies)


---------------------------------------------------------------------------
(* The statistics and lists that repeat an id *)

\* the kill records a step appended to the registry
Appended ==
    Len(killed_zombies_file'.killed_zombies) - Len(killed_zombies_file.killed_zombies)

C30_Step ==
    SaveReturned =>
        LET stats == ret'.value.stats
        IN /\ stats.total_zombies = stats.new_zombies + stats.persisting_zombies
           /\ Appended = stats.killed_zombies

\* C30: for every save_current_zombies call, also for a list in which two
\* records carry the same dynatrace_host_id, the statistics satisfy
\* total_zombies = new_zombies + persisting_zombies, and the number of kill
\* records the call appends to the registry equals stats.killed_zombies.
C30_StatsAddUp == [][C30_Step]_vars

\* a list without a repeated id
Distinct(zombies) == Cardinality(IdSet(zombies)) = Len(zombies)

\* the same for the calls whose argument and whose previous snapshot repeat
\* no id
C30_DistinctStep ==
    (SaveReturned /\ Distinct(ret'.arg) /\ Distinct(current_zombies_file.zombies))
        => C30_Step
C30_StatsAddUpForDistinctIds == [][C30_DistinctStep]_vars

\* a call for two records of h1 returned total_zombies 2 and new_zombies 1
C30_TotalExceedsIds ==
    /\ ret.op = "save_current_zombies"
    /\ ~ret.raised
    /\ ~Distinct(ret.arg)
    /\ ret.value.stats.total_zombies = 2
    /\ ret.value.stats.new_zombies + ret.value.stats.persisting_zombies = 1

---------------------------------------------------------------------------
(* json.dump(data, f, indent=2): the text written.  Each member of an      *)
(* object and each item of an array is on a line of its own, two spaces    *)
(* deeper than the bracket that opens it; an empty one is written {} or [].*)

HEXDIGITS == "0123456789abcdef"

\* a character of a str as json.dump writes it: a backslash before a quote
\* and a backslash, \n, \r, \t and \f for a line feed, a carriage return, a tab
\* and a form feed, the character itself for the rest of printable ASCII, the
\* escape \u00XX for a character after them.  Defined for these characters
CharText(c) ==
    IF c = "\"" THEN "\\\""
    ELSE IF c = "\\" THEN "\\\\"
    ELSE IF c = "\n" THEN "\\n"
    ELSE IF c = "\r" THEN "\\r"
    ELSE IF c = "\t" THEN "\\t"
    ELSE IF c = "\f" THEN "\\f"
    ELSE IF ord[c] <= 126 THEN c
    ELSE "\\u00" \o CharAt(HEXDIGITS, ord[c] \div 16 + 1)
                 \o CharAt(HEXDIGITS, (ord[c] % 16) + 1)

\* the characters of a string from index i on
RECURSIVE CharsText(_, _)
CharsText(s, i) ==
    IF i > Len(s) THEN "" ELSE CharText(CharAt(s, i)) \o CharsText(s, i + 1)

\* the keys json.dump writes and the strings of the records the callers save
WrittenStrings ==
    {"timestamp", "zombies", "zombie_ids", "stats", "total_zombies", "new_zombies",
     "persisting_zombies", "killed_zombies", "history", "zombie_count",
     "dynatrace_host_id", "hostname", "criterion_type", "criterion_alias",
     "killed_at", "last_detection", "unknown"}
    \cup UNION {{zombie[key] : key \in DOMAIN zombie} :
                  zombie \in {Host1, Host1Later, Host2, Host3}}

\* these strings in their double quotes, written once
StrTextOf == [s \in WrittenStrings |-> "\"" \o CharsText(s, 1) \o "\""]

\* a str in its double quotes
StrText(s) ==
    IF s \in WrittenStrings THEN StrTextOf[s] ELSE "\"" \o CharsText(s, 1) \o "\""

\* an int that is not negative, in decimal digits
RECURSIVE IntText(_)
IntText(n) ==
    IF n < 10 THEN CharAt("0123456789", n + 1)
    ELSE IntText(n \div 10) \o CharAt("0123456789", (n % 10) + 1)

\* the last `width` decimal digits of n
RECURSIVE Digits(_, _)
Digits(n, width) ==
    IF width = 0 THEN "" ELSE Digits(n \div 10, width - 1) \o IntText(n % 10)

\* datetime.isoformat() of a clock reading with its microsecond field: the
\* fraction of the second is written unless the field is 0
isoformat_microsecond(t, microsecond) ==
    IF microsecond = 0 THEN isoformat(t) ELSE isoformat(t) \o <<microsecond>>

\* the characters of a timestamp: the clock starts at midnight of the first
\* of a month of 31 days and a reading is at midnight or at noon.  Defined for
\* the days of that month
TimestampText(timestamp) ==
    CASE timestamp[1] <= 30 ->
        "2026-01-" \o Digits(timestamp[1] + 1, 2) \o "T"
            \o Digits(12 * timestamp[2], 2) \o ":00:00"
            \o (IF Len(timestamp) = 3 THEN "." \o Digits(timestamp[3], 6) ELSE "")

\* the timestamp these characters write.  Defined for the characters
\* TimestampText gives
TimestampOf(s) ==
    CASE /\ Len(s) \in {19, 26}
         /\ SubSeq(s, 1, 8) = "2026-01-"
         /\ DigitRun(s, 9) = 11
         /\ DigitsValue(SubSeq(s, 9, 10)) \in 1..31
         /\ SubSeq(s, 11, 19) \in {"T00:00:00", "T12:00:00"}
         /\ Len(s) = 26 =>
              /\ CharAt(s, 20) = "."
              /\ DigitRun(s, 21) = 27
              /\ DigitsValue(SubSeq(s, 21, 26)) > 0 ->
        <<DigitsValue(SubSeq(s, 9, 10)) - 1,
          IF SubSeq(s, 12, 13) = "12" THEN 1 ELSE 0>>
            \o (IF Len(s) = 26 THEN <<DigitsValue(SubSeq(s, 21, 26))>> ELSE <<>>)

RECURSIVE Spaces(_)
Spaces(n) == IF n = 0 THEN "" ELSE " " \o Spaces(n - 1)

\* the line break before a member or a closing bracket at nesting depth `depth`
NewLine(depth) == "\n" \o Spaces(2 * depth)

\* the members from the i-th on, each on its line, a comma between two
RECURSIVE Lines(_, _, _)
Lines(members, i, depth) ==
    IF i > Len(members) THEN ""
    ELSE (IF i > 1 THEN "," ELSE "") \o NewLine(depth) \o members[i]
             \o Lines(members, i + 1, depth)

\* an object and an array whose opening bracket is at nesting depth `depth`
Object(members, depth) ==
    IF Len(members) = 0 THEN "{}"
    ELSE "{" \o Lines(members, 1, depth + 1) \o NewLine(depth) \o "}"

Array(items, depth) ==
    IF Len(items) = 0 THEN "[]"
    ELSE "[" \o Lines(items, 1, depth + 1) \o NewLine(depth) \o "]"

\* "key": value
Member(key, value) == StrText(key) \o ": " \o value

\* the keys of a zombie record in the order the caller inserted them
ZombieKeys == <<"dynatrace_host_id", "hostname", "criterion_type", "criterion_alias">>

\* the keys a record has, in that order
KeysOf(zombie) == SelectSeq(ZombieKeys, LAMBDA key : key \in DOMAIN zombie)

\* a zombie record: an object of str members.  Defined for a record of these
\* keys
ZombieText(zombie, depth) ==
    CASE DOMAIN zombie \subseteq frozenset(ZombieKeys) ->
        Object([i \in DOMAIN KeysOf(zombie) |->
                   Member(KeysOf(zombie)[i], StrText(zombie[KeysOf(zombie)[i]]))],
               depth)

ZombiesText(zombies, depth) ==
    Array([i \in DOMAIN zombies |-> ZombieText(zombies[i], depth + 1)], depth)

StatsText(stats, depth) ==
    Object(<<Member("total_zombies", IntText(stats.total_zombies)),
             Member("new_zombies", IntText(stats.new_zombies)),
             Member("persisting_zombies", IntText(stats.persisting_zombies)),
             Member("killed_zombies", IntText(stats.killed_zombies))>>,
           depth)

\* current_zombies.json; zombie_ids is list(current_zombie_ids), the ids in
\* the order the set yields them
CurrentText(timestamp, zombies, zombie_ids, stats) ==
    Object(<<Member("timestamp", StrText(TimestampText(timestamp))),
             Member("zombies", ZombiesText(zombies, 1)),
             Member("zombie_ids",
                    Array([i \in DOMAIN zombie_ids |-> StrText(zombie_ids[i])], 1)),
             Member("stats", StatsText(stats, 1))>>,
           0)

HistoryEntryText(entry, depth) ==
    Object(<<Member("timestamp", StrText(TimestampText(entry.timestamp))),
             Member("zombie_count", IntText(entry.zombie_count)),
             Member("zombies", ZombiesText(entry.zombies, depth + 1))>>,
           depth)

\* zombie_history.json
HistoryText(history) ==
    Object(<<Member("history",
                    Array([i \in DOMAIN history |-> HistoryEntryText(history[i], 2)], 1))>>,
           0)

KilledEntryText(entry, depth) ==
    Object(<<Member("dynatrace_host_id", StrText(entry.dynatrace_host_id)),
             Member("hostname", StrText(entry.hostname)),
             Member("criterion_type", StrText(entry.criterion_type)),
             Member("criterion_alias", StrText(entry.criterion_alias)),
             Member("killed_at", StrText(TimestampText(entry.killed_at))),
             Member("last_detection", ZombieText(entry.last_detection, depth + 1))>>,
           depth)

\* killed_zombies.json
KilledText(killed) ==
    Object(<<Member("killed_zombies",
                    Array([i \in DOMAIN killed |-> KilledEntryText(killed[i], 2)], 1))>>,
           0)

---------------------------------------------------------------------------
(* json.load(f): the tracker's data in the value of a text.  A value that  *)
(* is not of the layout the tracker writes has no counterpart among the    *)
(* records of this module: the conversions are defined for that layout.    *)

\* chr(code)
chr ==
    [code \in {ord[c] : c \in DOMAIN ord} |-> CHOOSE c \in DOMAIN ord : ord[c] = code]
        @@ (9 :> "\t") @@ (10 :> "\n") @@ (12 :> "\f") @@ (13 :> "\r")

\* the str of a sequence of codes
RECURSIVE StrOf(_)
StrOf(chars) == IF Len(chars) = 0 THEN "" ELSE chr[Head(chars)] \o StrOf(Tail(chars))

\* the keys of the members of a dict, in the order of the text
MemberKeys(data) == [i \in DOMAIN data.value |-> StrOf(data.value[i].key)]

\* data[key]: of two members with one key the decoder keeps the later one
Item(data, key) ==
    data.value[CHOOSE i \in DOMAIN data.value :
                  /\ StrOf(data.value[i].key) = key
                  /\ \A j \in DOMAIN data.value :
                        StrOf(data.value[j].key) = key => j <= i].value

HasKey(data, key) == \E i \in DOMAIN data.value : StrOf(data.value[i].key) = key

\* a zombie record: a dict of str members under keys of ZombieKeys in their
\* order, the id among them
ZombieOf(data) ==
    CASE /\ data.type = "dict"
         /\ \A i \in DOMAIN data.value : data.value[i].value.type = "str"
         /\ HasKey(data, "dynatrace_host_id")
         /\ MemberKeys(data)
                = SelectSeq(ZombieKeys, LAMBDA key : HasKey(data, key)) ->
        [key \in {MemberKeys(data)[i] : i \in DOMAIN data.value} |->
            StrOf(Item(data, key).value)]

ZombiesOf(data) ==
    CASE data.type = "list" -> [i \in DOMAIN data.value |-> ZombieOf(data.value[i])]

HistoryEntryOf(data) ==
    CASE /\ data.type = "dict"
         /\ MemberKeys(data) = <<"timestamp", "zombie_count", "zombies">>
         /\ Item(data, "timestamp").type = "str"
         /\ Item(data, "zombie_count").type = "int" ->
        [timestamp |-> TimestampOf(StrOf(Item(data, "timestamp").value)),
         zombie_count |-> Item(data, "zombie_count").value,
         zombies |-> ZombiesOf(Item(data, "zombies"))]

KilledEntryOf(data) ==
    CASE /\ data.type = "dict"
         /\ MemberKeys(data) = <<"dynatrace_host_id", "hostname", "criterion_type",
                                 "criterion_alias", "killed_at", "last_detection">>
         /\ \A i \in 1..5 : data.value[i].value.type = "str" ->
        [dynatrace_host_id |-> StrOf(Item(data, "dynatrace_host_id").value),
         hostname |-> StrOf(Item(data, "hostname").value),
         criterion_type |-> StrOf(Item(data, "criterion_type").value),
         criterion_alias |-> StrOf(Item(data, "criterion_alias").value),
         killed_at |-> TimestampOf(StrOf(Item(data, "killed_at").value)),
         last_detection |-> ZombieOf(Item(data, "last_detection"))]

\* what a read leaves in the caller: json.load raised JSONDecodeError, or the
\* list taken from the value
Rejected == [raised |-> TRUE, value |-> <<>>]
Loaded(value) == [raised |-> FALSE, value |-> value]

\* _load_current_zombies: data.get("zombies", [])
LoadedZombies(data) ==
    CASE data.type = "JSONDecodeError" -> Rejected
      [] data.type = "dict" /\ ~HasKey(data, "zombies") -> Loaded(<<>>)
      [] data.type = "dict" /\ HasKey(data, "zombies") ->
            Loaded(ZombiesOf(Item(data, "zombies")))

\* _update_zombie_history: history_data["history"], the only member
LoadedHistory(data) ==
    CASE data.type = "JSONDecodeError" -> Rejected
      [] data.type = "dict" /\ MemberKeys(data) = <<"history">>
            /\ Item(data, "history").type = "list" ->
            Loaded([i \in DOMAIN Item(data, "history").value |->
                       HistoryEntryOf(Item(data, "history").value[i])])

\* _track_killed_zombies: killed_data["killed_zombies"], the only member
LoadedKilled(data) ==
    CASE data.type = "JSONDecodeError" -> Rejected
      [] data.type = "dict" /\ MemberKeys(data) = <<"killed_zombies">>
            /\ Item(data, "killed_zombies").type = "list" ->
            Loaded([i \in DOMAIN Item(data, "killed_zombies").value |->
                       KilledEntryOf(Item(data, "killed_zombies").value[i])])

---------------------------------------------------------------------------
(* Two callers of save_current_zombies on one data directory.  The tracker *)
(* takes no lock: a call is a sequence of system calls on the three files, *)
(* and the calls of two callers interleave freely.                         *)
(*   with open(path, "r") as f: json.load(f)  is open, fstat for the size  *)
(* of the file, and read(2) until one returns nothing: first for one byte  *)
(* more than the size, then for what the buffer has left, the buffer       *)
(* growing when it is full.  What the reads returned is decoded at the end.*)
(*   with open(path, "w") as f: json.dump(data, f)  is open, which empties *)
(* the file, and one write(2) of the text at offset 0 when the with block  *)
(* closes the file: the text stays in the buffer of f until then, when it  *)
(* is no longer than the buffer.                                           *)
(* A file that exists carries its characters in `text`.  ret holds the     *)
(* call of each caller: its position and the values of its local variables.*)

Procs == {1, 2}

MaxRaceCalls == 3

\* io.DEFAULT_BUFFER_SIZE, the buffer of a file opened for writing, and
\* SMALLCHUNK, the first request of a read when fstat reports no size
DEFAULT_BUFFER_SIZE == 8192
SMALLCHUNK == 8192

\* the caller has made no call yet
Idle ==
    [op |-> "save_current_zombies", arg |-> <<>>, at |-> 0, raised |-> FALSE,
     value |-> <<>>, pc |-> "idle", microsecond |-> 0, previous_zombies |-> <<>>,
     history_data |-> <<>>, killed_data |-> <<>>, overlapped |-> FALSE,
     bufsize |-> 0, buffer |-> "", data |-> Rejected]

InProgress(call) == call.pc \notin {"idle", "done"}

OtherProc(p) == CHOOSE q \in Procs : q # p

\* the call of p replaced by `call`
Resume(p, call) == [q \in Procs |-> IF q = p THEN call ELSE ret[q]]

\* the new, persisting and killed ids and the statistics of a call
Transitions(call) ==
    LET previous_zombie_ids == IdSet(call.previous_zombies)
        current_zombie_ids == IdSet(call.arg)
        new_zombies == NewZombies(current_zombie_ids, previous_zombie_ids)
        persisting_zombies == PersistingZombies(current_zombie_ids, previous_zombie_ids)
        killed_zombies == KilledZombies(current_zombie_ids, previous_zombie_ids)
    IN [new_zombies |-> new_zombies,
        persisting_zombies |-> persisting_zombies,
        killed_zombies |-> killed_zombies,
        stats |-> Stats(call.arg, new_zombies, persisting_zombies, killed_zombies)]

\* the history log written as the new entry alone
HistoryToWriteEntryOnly(history_data, zombies, timestamp) ==
    <<[timestamp |-> timestamp, zombie_count |-> Len(zombies), zombies |-> zombies]>>

\* history_data["history"] after the append and the cap
HistoryToWrite(history_data, zombies, timestamp) ==
    KeepLast(Append(history_data,
                    [timestamp |-> timestamp, zombie_count |-> Len(zombies),
                     zombies |-> zombies]))

\* a file that holds the characters `text`
Stored(file, text) == [text |-> text] @@ file

\* the file after write(2) of `text` at offset 0 over the characters `held`:
\* the text when it is as long as they are, else the text followed by the
\* rest of them, which json.load rejects.  Defined for a text that fits the
\* buffer of the file object
Written(written, text, garbled, held) ==
    CASE Len(text) <= DEFAULT_BUFFER_SIZE ->
        IF Len(text) >= Len(held) THEN Stored(written, text)
        ELSE Stored(garbled, text \o SubSeq(held, Len(text) + 1, Len(held)))

\* f.read() starts: the size of the buffer after fstat
Opened(call, text, pc) ==
    [call EXCEPT !.pc = pc,
                 !.bufsize = IF Len(text) > 0 THEN Len(text) + 1 ELSE SMALLCHUNK,
                 !.buffer = "",
                 !.data = Rejected]

\* what read(2) returns: the characters after the ones read, as many as the
\* buffer has room for
Chunk(call, text) ==
    SubSeq(text, Len(call.buffer) + 1,
           IF Len(text) < call.bufsize THEN Len(text) ELSE call.bufsize)

\* new_buffersize: the size of a buffer that is full
new_buffersize(currentsize) ==
    currentsize + (IF currentsize > 65536 THEN currentsize \div 8
                   ELSE IF 256 + currentsize < SMALLCHUNK THEN SMALLCHUNK
                   ELSE 256 + currentsize)

\* the call after a read(2) that returned `chunk`; `data` is what json.load
\* makes of the characters read so far
Filled(call, chunk, data) ==
    [call EXCEPT !.buffer = @ \o chunk,
                 !.bufsize = IF Len(call.buffer) + Len(chunk) >= @
                             THEN new_buffersize(Len(call.buffer) + Len(chunk))
                             ELSE @,
                 !.data = data]

\* what json.load makes of the characters read so far followed by `chunk`.
\* `text` is what the file holds and `whole` what json.load makes of that;
\* `torn` is the value decoded from the characters.  The decoder stops at the
\* end of the first value: after a whole object white space changes nothing and
\* any other character is "Extra data"
Decoded(call, chunk, text, whole, torn) ==
    IF call.buffer \o chunk = text THEN whole
    ELSE IF ~call.data.raised
         THEN (IF SkipSpace(chunk, 1) > Len(chunk) THEN call.data ELSE Rejected)
         ELSE torn

\* the call after f.read() returned
Closed(call, pc) ==
    [call EXCEPT !.pc = pc, !.bufsize = 0, !.buffer = "", !.data = Rejected]

\* the orders in which list(current_zombie_ids) can yield the ids
Orders(ids) ==
    {order \in [1..Cardinality(ids) -> ids] : frozenset(order) = ids}

\* the calls of the two callers: the list saved and the microsecond field
\* of the clock reading, which is 0 on a full second
RaceCalls ==
    { [zombies |-> <<>>, microsecond |-> 0],
      [zombies |-> <<Host1Later, Host2>>, microsecond |-> 123456] }

\* current_time of a call
CurrentTime(call) == isoformat_microsecond(call.at, call.microsecond)

\* current_time = datetime.now().isoformat()
Begin(p) ==
    \E call \in RaceCalls :
        /\ ret[p].pc \in {"idle", "done"}
        /\ runs < MaxRaceCalls
        /\ now < MaxClock
        /\ now' = now + 1
        /\ runs' = runs + 1
        /\ ret' = [q \in Procs |->
                     IF q = p
                     THEN [Idle EXCEPT !.arg = call.zombies, !.at = now,
                                       !.microsecond = call.microsecond,
                                       !.pc = "load_current",
                                       !.overlapped = ret[p].overlapped
                                                        \/ InProgress(ret[OtherProc(p)])]
                     ELSE [ret[q] EXCEPT !.overlapped = @ \/ InProgress(ret[q])]]
        /\ UNCHANGED <<files, faults>>

\* _load_current_zombies: open(self.current_zombies_file, "r") and the fstat
\* of json.load(f); FileNotFoundError is caught
LoadCurrent(p) ==
    /\ ret[p].pc = "load_current"
    /\ ret' = Resume(p, IF current_zombies_file.status = "missing"
                        THEN [ret[p] EXCEPT !.pc = "open_current",
                                            !.previous_zombies = <<>>]
                        ELSE Opened(ret[p], current_zombies_file.text, "read_current"))
    /\ UNCHANGED <<now, files, runs, faults>>

\* the call after a read(2) of the current file returned `chunk`
ReadCurrentStep(call, chunk) ==
    IF chunk = ""
    THEN [Closed(call, "open_current") EXCEPT
             !.previous_zombies = IF call.data.raised THEN <<>> ELSE call.data.value]
    ELSE Filled(call, chunk,
                Decoded(call, chunk, current_zombies_file.text,
                        IF current_zombies_file.status = "ok"
                        THEN Loaded(current_zombies_file.zombies)
                        ELSE Rejected,
                        LoadedZombies(json_loads(call.buffer \o chunk))))

\* _load_current_zombies: a read(2) of json.load(f); after the last one
\* previous_zombies = data.get("zombies", []), JSONDecodeError is caught
ReadCurrent(p) ==
    /\ ret[p].pc = "read_current"
    /\ ret' = Resume(p, ReadCurrentStep(ret[p], Chunk(ret[p], current_zombies_file.text)))
    /\ UNCHANGED <<now, files, runs, faults>>

\* with open(self.current_zombies_file, "w") as f
OpenCurrent(p) ==
    /\ ret[p].pc = "open_current"
    /\ current_zombies_file' = Stored(NoCurrent("corrupt"), "")
    /\ ret' = Resume(p, [ret[p] EXCEPT !.pc = "write_current"])
    /\ UNCHANGED <<now, zombie_history_file, killed_zombies_file, runs, faults>>

\* json.dump(zombie_data, f) and the end of the with block
WriteCurrent(p) ==
    /\ ret[p].pc = "write_current"
    /\ \E zombie_ids \in Orders(IdSet(ret[p].arg)) :
        current_zombies_file' =
               Written(CurrentFile("ok", CurrentTime(ret[p]), ret[p].arg,
                                   IdSet(ret[p].arg), Transitions(ret[p]).stats),
                       CurrentText(CurrentTime(ret[p]), ret[p].arg, zombie_ids,
                                   Transitions(ret[p]).stats),
                       NoCurrent("corrupt"),
                       current_zombies_file.text)
    /\ ret' = Resume(p, [ret[p] EXCEPT !.pc = "load_history"])
    /\ UNCHANGED <<now, zombie_history_file, killed_zombies_file, runs, faults>>

\* _update_zombie_history: open(self.zombie_history_file, "r") and the fstat
\* of json.load(f); FileNotFoundError is caught
LoadHistory(p) ==
    /\ ret[p].pc = "load_history"
    /\ ret' = Resume(p, IF zombie_history_file.status = "missing"
                        THEN [ret[p] EXCEPT !.pc = "open_history",
                                            !.history_data = <<>>]
                        ELSE Opened(ret[p], zombie_history_file.text, "read_history"))
    /\ UNCHANGED <<now, files, runs, faults>>

\* the call after a read(2) of the history log returned `chunk`
ReadHistoryStep(call, chunk) ==
    IF chunk = ""
    THEN [Closed(call, "open_history") EXCEPT
             !.history_data = IF call.data.raised THEN <<>> ELSE call.data.value]
    ELSE Filled(call, chunk,
                Decoded(call, chunk, zombie_history_file.text,
                        IF zombie_history_file.status = "ok"
                        THEN Loaded(zombie_history_file.history)
                        ELSE Rejected,
                        LoadedHistory(json_loads(call.buffer \o chunk))))

\* _update_zombie_history: a read(2) of json.load(f); after the last one
\* history_data is the value, {"history": []} when JSONDecodeError is caught
ReadHistory(p) ==
    /\ ret[p].pc = "read_history"
    /\ ret' = Resume(p, ReadHistoryStep(ret[p], Chunk(ret[p], zombie_history_file.text)))
    /\ UNCHANGED <<now, files, runs, faults>>

\* _update_zombie_history: with open(self.zombie_history_file, "w") as f
OpenHistory(p) ==
    /\ ret[p].pc = "open_history"
    /\ zombie_history_file' = Stored(HistoryFile("corrupt", <<>>), "")
    /\ ret' = Resume(p, [ret[p] EXCEPT !.pc = "write_history"])
    /\ UNCHANGED <<now, current_zombies_file, killed_zombies_file, runs, faults>>

\* what the history log holds after the text of `history` was written to it
HistoryWritten(history) ==
    Written(HistoryFile("ok", history), HistoryText(history),
            HistoryFile("corrupt", <<>>), zombie_history_file.text)

\* _update_zombie_history: json.dump(history_data, f) and the end of the with
\* block, where _update_zombie_history returns and history_data is gone; the
\* call returns here when no id was killed
WriteHistory(p) ==
    /\ ret[p].pc = "write_history"
    /\ zombie_history_file' =
           HistoryWritten(HistoryToWrite(ret[p].history_data, ret[p].arg,
                                         CurrentTime(ret[p])))
    /\ ret' = Resume(p, IF Transitions(ret[p]).killed_zombies # {}
                        THEN [ret[p] EXCEPT !.pc = "load_killed",
                                            !.history_data = <<>>]
                        ELSE [ret[p] EXCEPT !.pc = "done",
                                            !.history_data = <<>>,
                                            !.value = <<Transitions(ret[p])>>])
    /\ UNCHANGED <<now, current_zombies_file, killed_zombies_file, runs, faults>>

\* _track_killed_zombies: open(self.killed_zombies_file, "r") and the fstat
\* of json.load(f); FileNotFoundError is caught
LoadKilled(p) ==
    /\ ret[p].pc = "load_killed"
    /\ ret' = Resume(p, IF killed_zombies_file.status = "missing"
                        THEN [ret[p] EXCEPT !.pc = "open_killed",
                                            !.killed_data = <<>>]
                        ELSE Opened(ret[p], killed_zombies_file.text, "read_killed"))
    /\ UNCHANGED <<now, files, runs, faults>>

\* the call after a read(2) of the registry returned `chunk`
ReadKilledStep(call, chunk) ==
    IF chunk = ""
    THEN [Closed(call, "open_killed") EXCEPT
             !.killed_data = IF call.data.raised THEN <<>> ELSE call.data.value]
    ELSE Filled(call, chunk,
                Decoded(call, chunk, killed_zombies_file.text,
                        IF killed_zombies_file.status = "ok"
                        THEN Loaded(killed_zombies_file.killed_zombies)
                        ELSE Rejected,
                        LoadedKilled(json_loads(call.buffer \o chunk))))

\* _track_killed_zombies: a read(2) of json.load(f); after the last one
\* killed_data is the value, {"killed_zombies": []} when JSONDecodeError is
\* caught
ReadKilled(p) ==
    /\ ret[p].pc = "read_killed"
    /\ ret' = Resume(p, ReadKilledStep(ret[p], Chunk(ret[p], killed_zombies_file.text)))
    /\ UNCHANGED <<now, files, runs, faults>>

\* _track_killed_zombies: with open(self.killed_zombies_file, "w") as f
OpenKilled(p) ==
    /\ ret[p].pc = "open_killed"
    /\ killed_zombies_file' = Stored(KilledFile("corrupt", <<>>), "")
    /\ ret' = Resume(p, [ret[p] EXCEPT !.pc = "write_killed"])
    /\ UNCHANGED <<now, current_zombies_file, zombie_history_file, runs, faults>>

\* what the registry holds after the text of `killed` was written to it
KilledWritten(killed) ==
    Written(KilledFile("ok", killed), KilledText(killed),
            KilledFile("corrupt", <<>>), killed_zombies_file.text)

\* _track_killed_zombies: json.dump(killed_data, f) and the end of the with
\* block; the call returns
WriteKilled(p) ==
    /\ ret[p].pc = "write_killed"
    /\ killed_zombies_file' =
           KilledWritten(ret[p].killed_data
                             \o KilledEntries(Transitions(ret[p]).killed_zombies,
                                              ret[p].previous_zombies,
                                              CurrentTime(ret[p])))
    /\ ret' = Resume(p, [ret[p] EXCEPT !.pc = "done",
                                       !.killed_data = <<>>,
                                       !.value = <<Transitions(ret[p])>>])
    /\ UNCHANGED <<now, current_zombies_file, zombie_history_file, runs, faults>>

InitRace ==
    /\ now = 0
    /\ current_zombies_file = NoCurrent("missing")
    /\ zombie_history_file = HistoryFile("missing", <<>>)
    /\ killed_zombies_file = KilledFile("missing", <<>>)
    /\ ret = [p \in Procs |-> Idle]
    /\ runs = 0
    /\ faults = 0

NextRace ==
    \E p \in Procs :
        \/ Begin(p)
        \/ LoadCurrent(p)
        \/ ReadCurrent(p)
        \/ OpenCurrent(p)
        \/ WriteCurrent(p)
        \/ LoadHistory(p)
        \/ ReadHistory(p)
        \/ OpenHistory(p)
        \/ WriteHistory(p)
        \/ LoadKilled(p)
        \/ ReadKilled(p)
        \/ OpenKilled(p)
        \/ WriteKilled(p)

SpecRace == InitRace /\ [][NextRace]_vars

\* no call has started while another one was in progress
Serial == \A p \in Procs : ~ret[p].overlapped

\* no call is in progress
Quiet == \A p \in Procs : ~InProgress(ret[p])

\* the history log holds the entry of the call
HasHistoryEntry(call) ==
    \E i \in DOMAIN zombie_history_file.history :
        /\ zombie_history_file.history[i].timestamp = CurrentTime(call)
        /\ zombie_history_file.history[i].zombies = call.arg

\* the registry holds the records the call appended
HasKillRecords(call) ==
    \A id \in call.value[1].killed_zombies :
        \E k \in DOMAIN killed_zombies_file.killed_zombies :
            /\ killed_zombies_file.killed_zombies[k].dynatrace_host_id = id
            /\ killed_zombies_file.killed_zombies[k].killed_at = CurrentTime(call)

\* C23: the tracker has no mutual exclusion.  With the calls executed one at
\* a time the history log holds the entry of every run and the registry the
\* kill records of every run; when two save_current_zombies calls on one
\* directory interleave at the granularity of file reads and writes there is
\* an interleaving after which an entry or a record of one of them is lost.
C23_SerialCallsLoseNothing ==
    (Serial /\ Quiet) =>
        /\ current_zombies_file.status # "corrupt"
        /\ zombie_history_file.status # "corrupt"
        /\ killed_zombies_file.status # "corrupt"
        /\ Len(zombie_history_file.history) = runs
        /\ \A p \in Procs :
              ret[p].pc = "done" => HasHistoryEntry(ret[p]) /\ HasKillRecords(ret[p])
        /\ Orphans = {}

\* both callers have returned from calls that overlapped and the three files
\* are well formed; the history log lacks the entry of one of them and the
\* registry a kill record one of them appended
C23_Witness ==
    /\ \A p \in Procs : ret[p].pc = "done" /\ ret[p].overlapped
    /\ current_zombies_file.status = "ok"
    /\ zombie_history_file.status = "ok"
    /\ killed_zombies_file.status = "ok"
    /\ \E p \in Procs : ~HasHistoryEntry(ret[p])
    /\ \E p \in Procs : ~HasKillRecords(ret[p])

\* "whatever the interleaving, nothing is lost": refuted under SpecRace
C23_NothingLostEver ==
    (\A p \in Procs : ret[p].pc = "done") =>
        \A p \in Procs : HasHistoryEntry(ret[p]) /\ HasKillRecords(ret[p])

\* "no call leaves a file that json.load rejects": refuted under SpecRace,
\* a shorter text written over a longer one leaves the rest of it
C23_NoGarbledFile ==
    Quiet =>
        /\ current_zombies_file.status # "corrupt"
        /\ zombie_history_file.status # "corrupt"
        /\ killed_zombies_file.status # "corrupt"

============================================================================

